---- MODULE Spec2Model ----
(***************************************************************************)
(* A model of the snapshot-and-diff engine of webpage_tracker.py           *)
(* (class WebpageTracker): the date-keyed archive of fetched pages, the    *)
(* choice of the comparison baseline, and the per-target processing of a   *)
(* batch run.                                                              *)
(*                                                                         *)
(* Strings are sequences of character codes, so that the lexical sort of   *)
(* get_previous_version is the string comparison Python performs.  The     *)
(* two directory trees webpage_versions/ and diffs/ are functions from     *)
(* site names to directories, a directory being a function from file       *)
(* names to file contents.                                                 *)
(***************************************************************************)
EXTENDS Integers, Sequences, FiniteSets, TLC

(***************************************************************************)
(* Bounds of the model.                                                    *)
(***************************************************************************)
\* how many calendar dates of DateList the store is called with
NumDates == 3

\* how many calendar dates of DateList the wall clock of a run goes through
MaxDay == 2

\* how many times run() is started (the scheduled runs, and the runs started
\* again after an interruption)
MaxRuns == 2

(***************************************************************************)
(* Python values.                                                          *)
(***************************************************************************)
\* None where the other values are tuples (a path, a site name)
None == <<>>

\* the documents fetch_webpage can return for a page (prettified markup);
\* two are what it takes to tell a file that was replaced from one that was kept
Docs == {1, 2}

\* a falsy html_content: None (the fetch failed) or the empty string
NoContent == 0

\* the content of a file: a whole document, or what reached the disk of a
\* write that did not finish (open(path, 'w') truncates before it writes)
Whole(doc) == [complete |-> TRUE, doc |-> doc]
Truncated == [complete |-> FALSE, doc |-> NoContent]

(***************************************************************************)
(* Character codes and strings.                                            *)
(***************************************************************************)
Dash == 45
Zero == 48
DotHtml == <<46, 104, 116, 109, 108>>

RECURSIVE DigitsOf(_)
\* str(n) for n >= 0, as character codes
DigitsOf(n) ==
    IF n < 10 THEN <<Zero + n>> ELSE DigitsOf(n \div 10) \o <<Zero + (n % 10)>>

RECURSIVE ZeroPad(_, _)
\* the zero padding of the %02d / %m / %d / %Y conversions
ZeroPad(s, width) ==
    IF Len(s) < width THEN ZeroPad(<<Zero>> \o s, width) ELSE s

\* Python's str < str: code point by code point, a proper prefix is smaller
StrLess(a, b) ==
    \E i \in 1..Len(b) :
        /\ i <= Len(a) + 1
        /\ \A j \in 1..(i - 1) : a[j] = b[j]
        /\ \/ i = Len(a) + 1
           \/ a[i] < b[i]

EndsWith(s, suffix) ==
    /\ Len(s) >= Len(suffix)
    /\ SubSeq(s, Len(s) - Len(suffix) + 1, Len(s)) = suffix

(***************************************************************************)
(* Calendar dates, <<year, month, day>>.                                   *)
(***************************************************************************)
\* the days the wall clock runs through, in calendar order
DateList ==
    << <<2025, 7, 28>>, <<2025, 7, 29>>, <<2025, 7, 30>>, <<2025, 10, 1>>,
       <<2026, 1, 2>> >>

Dates == {DateList[i] : i \in 1..NumDates}

\* d1 is an earlier day than d2
DateBefore(d1, d2) ==
    \/ d1[1] < d2[1]
    \/ d1[1] = d2[1] /\ d1[2] < d2[2]
    \/ d1[1] = d2[1] /\ d1[2] = d2[2] /\ d1[3] < d2[3]

\* datetime.strftime('%Y-%m-%d')
Strftime(date) ==
    ZeroPad(DigitsOf(date[1]), 4) \o <<Dash>> \o ZeroPad(DigitsOf(date[2]), 2)
        \o <<Dash>> \o ZeroPad(DigitsOf(date[3]), 2)

\* f"{date_str}.html"
VersionFileName(date_str) == date_str \o DotHtml

\* Path(old_file).stem
Stem(name) == IF EndsWith(name, DotHtml) THEN SubSeq(name, 1, Len(name) - Len(DotHtml)) ELSE name

(***************************************************************************)
(* The targets of a run (read_urls_from_excel) and their archive keys.     *)
(***************************************************************************)
\* a URL as urlparse splits it: the labels of netloc, the segments of path
Url(netloc, path) == [netloc |-> netloc, path |-> path]

\* the url_entries of a sheet with one row: its English and Chinese URL
urls ==
    << [url |-> Url(<<"www", "example", "com">>, <<"en", "cfd">>), number |-> 1,
        language |-> "en", type |-> "reference"],
       [url |-> Url(<<"www", "example", "com">>, <<"zh", "cfd">>), number |-> 1,
        language |-> "zh", type |-> "preview"] >>

\* the fallback of get_site_name when the name cannot be built
UnknownSite == <<"unknown_site">>

\* f"{number:02d}/{language}_{url_type}/{url_folder}", the three path parts;
\* url_folder joins the labels of the domain and the segments of the path
\* with '-', so it is kept as the sequence of the joined pieces
get_site_name(url_info) ==
    IF url_info.number \in Nat
    THEN << ZeroPad(DigitsOf(url_info.number), 2),
            <<url_info.language, url_info.type>>,
            url_info.url.netloc \o url_info.url.path >>
    ELSE UnknownSite

SiteNames == {get_site_name(urls[i]) : i \in 1..Len(urls)}

(***************************************************************************)
(* The two file trees.                                                     *)
(***************************************************************************)
EmptyDir == [n \in {} |-> Truncated]

\* a mkdir that empties every directory of the tree
MkdirFresh(tree, site) == [s \in DOMAIN tree \cup {site} |-> EmptyDir]

\* Path.mkdir(parents=True, exist_ok=True)
Mkdir(tree, site) ==
    [s \in DOMAIN tree \cup {site} |-> IF s \in DOMAIN tree THEN tree[s] ELSE EmptyDir]

\* a write that replaces every other file of the directory
WriteFileAlone(tree, site, name, content) ==
    [tree EXCEPT ![site] = [n \in {name} |-> content]]

\* a write that keeps a file that is already there
WriteFileKeep(tree, site, name, content) ==
    [tree EXCEPT ![site] =
        [n \in DOMAIN @ \cup {name} |-> IF n \in DOMAIN @ THEN @[n] ELSE content]]

\* the file `name` of directory `site` holds `content` (created or replaced)
WriteFile(tree, site, name, content) ==
    [tree EXCEPT ![site] =
        [n \in DOMAIN @ \cup {name} |-> IF n = name THEN content ELSE @[n]]]

\* site_dir.glob("*.html")
Glob(dir) == {n \in DOMAIN dir : EndsWith(n, DotHtml)}

RECURSIVE SortReverse(_)
\* list.sort(reverse=True) of file names: largest string first
SortReverse(S) ==
    IF S = {} THEN <<>>
    ELSE LET m == CHOOSE x \in S : \A y \in S : y = x \/ StrLess(y, x)
         IN  <<m>> \o SortReverse(S \ {m})

\* a baseline choice that sorts the files oldest first
PreviousAscending(tree, site_name) ==
    IF site_name \notin DOMAIN tree THEN None
    ELSE LET html_files == SortReverse(Glob(tree[site_name]))
         IN  IF Len(html_files) < 2 THEN None
             ELSE <<site_name, html_files[Len(html_files) - 1]>>

\* a baseline choice that falls back on the only file there is
PreviousOrOnly(tree, site_name) ==
    IF site_name \notin DOMAIN tree THEN None
    ELSE LET html_files == SortReverse(Glob(tree[site_name]))
         IN  IF Len(html_files) < 1 THEN None
             ELSE <<site_name, html_files[IF Len(html_files) < 2 THEN 1 ELSE 2]>>

\* a baseline choice that takes the newest file
PreviousNewest(tree, site_name) ==
    IF site_name \notin DOMAIN tree THEN None
    ELSE LET html_files == SortReverse(Glob(tree[site_name]))
         IN  IF Len(html_files) < 1 THEN None ELSE <<site_name, html_files[1]>>

\* the path of the second most recent file of the site, None below two files
get_previous_version(tree, site_name) ==
    IF site_name \notin DOMAIN tree THEN None
    ELSE LET html_files == SortReverse(Glob(tree[site_name]))
         IN  IF Len(html_files) < 2 THEN None ELSE <<site_name, html_files[2]>>

\* f"diff_{Path(old_file).stem}_to_{date_str}.html"
DiffFileName(old_name, date_str) ==
    <<100, 105, 102, 102, 95>> \o Stem(old_name) \o <<95, 116, 111, 95>> \o date_str
        \o DotHtml

\* the report generate_diff builds from the two documents it has read, kept
\* as what it says of them: whether they differ
Report(old_html, new_html) == [complete |-> TRUE, changed |-> old_html # new_html]
TruncatedReport == [complete |-> FALSE, changed |-> FALSE]

\* what can go wrong in a write to the archive or to the report directory
Faults == {"none", "mkdir", "open", "write"}

\* the tree after save_webpage_version: the directory is made, the file is
\* opened for writing (created or truncated), the document written
save_webpage_version(tree, site_name, html_content, date_str, fault) ==
    LET name == VersionFileName(date_str) IN
    CASE fault = "mkdir" -> tree
      [] fault = "open"  -> Mkdir(tree, site_name)
      [] fault = "write" -> WriteFile(Mkdir(tree, site_name), site_name, name, Truncated)
      [] OTHER ->
           WriteFile(Mkdir(tree, site_name), site_name, name,
                     IF html_content \in Docs THEN Whole(html_content) ELSE Truncated)

\* what save_webpage_version returns: the file path, None when it failed
SaveResult(site_name, html_content, date_str, fault) ==
    IF fault = "none" /\ html_content \in Docs
    THEN <<site_name, VersionFileName(date_str)>>
    ELSE None

\* open(path, 'r') succeeds: the file is there
Readable(tree, path) ==
    /\ path # None
    /\ Len(path) = 2
    /\ path[1] \in DOMAIN tree
    /\ path[2] \in DOMAIN tree[path[1]]

\* f.read(): whatever the file holds, whole or truncated
ReadFile(tree, path) == tree[path[1]][path[2]]

\* f"{self.webpage_versions_dir}/{site_name}/{date_str}.html"
NewFilePath(site, date_str) == <<site, VersionFileName(date_str)>>

\* the tree diffs/ after generate_diff: the report directory is made, both
\* versions are read, the report is built, its file opened and written
generate_diff(tree, archive, site, old_file, new_file, date_str, fault) ==
    LET name == DiffFileName(old_file[2], date_str) IN
    CASE fault = "mkdir" -> tree
      [] fault = "open" \/ ~Readable(archive, old_file) \/ ~Readable(archive, new_file) ->
           Mkdir(tree, site)
      [] fault = "write" -> WriteFile(Mkdir(tree, site), site, name, TruncatedReport)
      [] OTHER ->
           WriteFile(Mkdir(tree, site), site, name,
                     Report(ReadFile(archive, old_file), ReadFile(archive, new_file)))

\* what generate_diff returns: the path of the report, None when it failed
DiffResult(archive, site, old_file, new_file, date_str, fault) ==
    IF fault = "none" /\ Readable(archive, old_file) /\ Readable(archive, new_file)
    THEN <<site, DiffFileName(old_file[2], date_str)>>
    ELSE None

(***************************************************************************)
(* The fetch of the page.                                                  *)
(***************************************************************************)
\* session.get raised a RequestException (no connection, a timeout): there
\* is no response
NoResponse == [status |-> 0, body |-> NoContent]

\* the final status of a response: a success, a redirection that requests
\* does not follow (300 Multiple Choices), a client error
Statuses == {200, 300, 404}

\* what session.get(url, timeout=30) can give
Responses ==
    {NoResponse} \cup {[status |-> st, body |-> b] : st \in Statuses, b \in Docs \cup {NoContent}}

\* response.raise_for_status() raises HTTPError: a 4xx or 5xx status
RaisesForStatus(status) == status >= 400 /\ status < 600

\* what fetch_webpage returns: None for a request that raised, else the
\* prettified markup of the body (the empty string for an empty body)
fetch_webpage(resp) ==
    IF resp = NoResponse \/ RaisesForStatus(resp.status) THEN NoContent ELSE resp.body

(***************************************************************************)
(* process_url, statement by statement.                                    *)
(***************************************************************************)
\* a variable of process_url that has not been assigned yet
Pending == <<"pending">>

\* "if not html_content: return False"
FetchFailed(html) == html \notin Docs

\* an order of the statements that reads previous before it saves
StepAfterSwapped(step, has_previous) ==
    CASE step = "fetch"    -> "previous"
      [] step = "previous" -> "save_open"
      [] step = "save"     -> IF has_previous THEN "diff_open" ELSE "return"
      [] OTHER             -> "return"

\* the statements of process_url in the order that runs save before previous
\* and previous before the report; has_previous is "if previous_version:"
StepAfter(step, has_previous) ==
    CASE step = "fetch"    -> "save_open"
      [] step = "save"     -> "previous"
      [] step = "previous" -> IF has_previous THEN "diff_open" ELSE "return"
      [] OTHER             -> "return"

(***************************************************************************)
(* State.                                                                  *)
(***************************************************************************)
VARIABLES
    versions,          \* the tree webpage_versions/: site name -> file name -> content
    diffs,             \* the tree diffs/: site name -> report name -> report
    today,             \* index in DateList of the last date datetime.now() gave
    response,          \* fetch_webpage: response, while process_url looks at its result
    pc,                \* where run() and process_url stand
    idx,               \* position of run()'s loop in urls
    success_count,     \* run()'s counter
    rets,              \* what process_url returned for the targets of this run
    date_str,          \* process_url: date_str
    html_content,      \* process_url: html_content
    save_result,       \* what save_webpage_version returned (process_url drops it)
    previous_version,  \* process_url: previous_version
    diff_result,       \* what generate_diff returned (process_url drops it)
    ret,               \* what process_url returns
    existed,           \* the file of date_str was there before this save began
    call,              \* the last call made on the store alone, see SpecStore
    saved,             \* <<site, date>> -> the document of its last save that succeeded
    runs,              \* how many times run() has been started
    targets,           \* SpecKeys: the url_info of the two targets whose keys are compared
    kept,              \* SpecKeys: <<target, date>> -> the document of its last save
    document,          \* SpecExtract: the markup given to extract_text_content
    text_sections,     \* SpecExtract: what extract_text_content returned
    old_text_sections, \* SpecDiff: analyze_changes' old_text_sections
    new_text_sections, \* SpecDiff: analyze_changes' new_text_sections
    changes,           \* SpecDiff: what analyze_changes returned
    soup,              \* SpecFetch: fetch_webpage's soup, the elements that refer to assets
    asset_log,         \* SpecFetch: the asset requests made so far, in order
    page,              \* SpecFetch: what fetch_webpage returned
    files,             \* SpecReport: the units the two files given to generate_diff hold
    diff_file,         \* SpecReport: the report generate_diff wrote
    change_rows        \* SpecReport: the report's script state once a browser loaded it

vars ==
    <<versions, diffs, today, pc, idx, success_count, rets, response, date_str, html_content,
      save_result, previous_version, diff_result, ret, existed, call, saved, runs,
      targets, kept, document, text_sections, old_text_sections, new_text_sections, changes,
      soup, asset_log, page, files, diff_file, change_rows>>

target_vars ==
    <<response, date_str, html_content, save_result, previous_version, diff_result, ret,
      existed>>
run_vars == <<pc, idx, success_count, rets, today, runs>>
store_vars == <<call, saved>>
key_vars == <<targets, kept>>
extract_vars == <<document, text_sections>>
diff_vars == <<old_text_sections, new_text_sections, changes>>
fetch_vars == <<soup, asset_log, page>>
report_vars == <<files, diff_file, change_rows>>
lib_vars == <<key_vars, extract_vars, diff_vars, fetch_vars, report_vars>>

NoCall == [op |-> "none", site |-> None, date |-> None, follows |-> None, replaced |-> FALSE]

site_name == get_site_name(urls[idx])

\* the lowest of the documents
FirstDoc == CHOOSE doc \in Docs : \A other \in Docs : doc <= other

\* __init__ makes the two directories when they are missing and leaves what
\* they hold.  The runs start from what a run of the first day has left when
\* the page of the first target was fetched and saved and the fetch of the
\* second failed: the first target has a baseline, the second has none yet.
ArchiveAfterFirstRun ==
    [s \in {get_site_name(urls[1])} |->
        [n \in {VersionFileName(Strftime(DateList[1]))} |-> Whole(FirstDoc)]]

InitLocals ==
    /\ diffs = [s \in {} |-> EmptyDir]
    /\ today = 1
    /\ pc = "idle"
    /\ idx = 1
    /\ success_count = 0
    /\ rets = <<>>
    /\ response = NoResponse
    /\ date_str = None
    /\ html_content = NoContent
    /\ save_result = Pending
    /\ previous_version = Pending
    /\ diff_result = Pending
    /\ ret = FALSE
    /\ existed = FALSE
    /\ call = NoCall
    /\ runs = 0

\* the variables of a specification that is not the one running
NoKeys == targets = <<>> /\ kept = <<>>
NoExtract == document = <<>> /\ text_sections = <<>>
NoDiff == old_text_sections = <<>> /\ new_text_sections = <<>> /\ changes = <<>>
NoFetch == soup = <<>> /\ asset_log = <<>> /\ page = <<>>
NoReport == files = <<>> /\ diff_file = <<>> /\ change_rows = <<>>

Init ==
    /\ versions = ArchiveAfterFirstRun
    /\ saved = [p \in SiteNames \X Dates |->
                  IF p = <<get_site_name(urls[1]), DateList[1]>> THEN FirstDoc ELSE NoContent]
    /\ InitLocals
    /\ NoKeys /\ NoExtract /\ NoDiff /\ NoFetch /\ NoReport

\* the store starts empty
InitStore ==
    /\ versions = [s \in {} |-> EmptyDir]
    /\ saved = [p \in SiteNames \X Dates |-> NoContent]
    /\ InitLocals
    /\ NoKeys /\ NoExtract /\ NoDiff /\ NoFetch /\ NoReport

ResetTarget ==
    /\ response' = NoResponse
    /\ date_str' = None
    /\ html_content' = NoContent
    /\ save_result' = Pending
    /\ previous_version' = Pending
    /\ diff_result' = Pending
    /\ ret' = FALSE
    /\ existed' = FALSE

(***************************************************************************)
(* The store on its own: save_webpage_version and get_previous_version     *)
(* called for one target with any document and date, in any order.         *)
(***************************************************************************)
StoreSite == get_site_name(urls[1])

StoreSave(site, doc, date, fault) ==
    /\ versions' = save_webpage_version(versions, site, doc, Strftime(date), fault)
    /\ call' = IF fault = "none"
               THEN [op |-> "save", site |-> site, date |-> date, follows |-> None,
                     replaced |-> Readable(versions, NewFilePath(site, Strftime(date)))]
               ELSE NoCall
    /\ saved' = [saved EXCEPT ![<<site, date>>] =
                    CASE fault = "none" -> doc
                      [] fault = "write" -> NoContent
                      [] OTHER -> @]
    /\ previous_version' = Pending
    /\ UNCHANGED <<lib_vars, diffs, run_vars, response, date_str, html_content, save_result,
                   diff_result, ret, existed>>

StorePrevious(site) ==
    /\ previous_version' = get_previous_version(versions, site)
    /\ call' = [op |-> "previous", site |-> site, date |-> None,
                follows |-> IF call.op = "save" /\ call.site = site THEN call.date ELSE None,
                replaced |-> FALSE]
    /\ UNCHANGED <<lib_vars, versions, diffs, run_vars, saved, response, date_str, html_content,
                   save_result, diff_result, ret, existed>>

NextStore ==
    \/ \E doc \in Docs, date \in Dates, fault \in Faults :
           StoreSave(StoreSite, doc, date, fault)
    \/ StorePrevious(StoreSite)

SpecStore == InitStore /\ [][NextStore]_vars

(***************************************************************************)
(* run() and process_url.  A write to a file is two steps, the open that   *)
(* creates or truncates it and the write that fills it, because the run    *)
(* can be interrupted between them and the file is visible in between.     *)
(***************************************************************************)
\* run(): urls is read, the counters are set, the loop starts
RunStart ==
    /\ pc \in {"idle", "done", "interrupted"}
    /\ runs < MaxRuns
    /\ runs' = runs + 1
    /\ Len(urls) > 0
    /\ pc' = "fetch"
    /\ idx' = 1
    /\ success_count' = 0
    /\ rets' = <<>>
    /\ UNCHANGED <<versions, diffs, today, target_vars, store_vars, lib_vars>>

\* process_url up to the fetch: date_str is today's date (the clock never
\* runs backwards), fetch_webpage returns a document or nothing
Fetch ==
    /\ pc = "fetch"
    /\ \E now \in today..MaxDay, resp \in Responses :
          /\ today' = now
          /\ date_str' = Strftime(DateList[now])
          /\ response' = resp
          /\ html_content' = fetch_webpage(resp)
          /\ IF FetchFailed(html_content')
             THEN pc' = "return" /\ ret' = FALSE
             ELSE pc' = StepAfter("fetch", FALSE) /\ ret' = ret
    /\ UNCHANGED <<versions, diffs, idx, success_count, rets, runs, save_result,
                   previous_version, diff_result, existed, store_vars, lib_vars>>

\* save_webpage_version up to open(filepath, 'w')
SaveOpen ==
    /\ pc = "save_open"
    /\ existed' = Readable(versions, NewFilePath(site_name, date_str))
    /\ response' = NoResponse
    /\ \E fault \in {"mkdir", "write"} :
          /\ versions' = save_webpage_version(versions, site_name, html_content, date_str, fault)
          /\ IF fault = "write"
             THEN pc' = "save_write" /\ save_result' = save_result
             ELSE /\ pc' = StepAfter("save", previous_version # None /\ previous_version # Pending)
                  /\ save_result' = SaveResult(site_name, html_content, date_str, fault)
    /\ ret' = (pc' = "return")
    /\ UNCHANGED <<diffs, today, idx, success_count, rets, runs, date_str, html_content,
                   previous_version, diff_result, store_vars, lib_vars>>

\* f.write(html_content) and the close of the file
SaveWrite ==
    /\ pc = "save_write"
    /\ \E fault \in {"none", "write"} :
          /\ versions' = save_webpage_version(versions, site_name, html_content, date_str, fault)
          /\ save_result' = SaveResult(site_name, html_content, date_str, fault)
    /\ pc' = StepAfter("save", previous_version # None /\ previous_version # Pending)
    /\ ret' = (pc' = "return")
    /\ UNCHANGED <<diffs, today, idx, success_count, rets, runs, response, date_str,
                   html_content, previous_version, diff_result, existed, store_vars, lib_vars>>

\* previous_version = self.get_previous_version(site_name)
GetPrevious ==
    /\ pc = "previous"
    /\ response' = NoResponse
    /\ previous_version' = get_previous_version(versions, site_name)
    /\ pc' = StepAfter("previous", previous_version' # None)
    /\ ret' = (pc' = "return")
    /\ UNCHANGED <<versions, diffs, today, idx, success_count, rets, runs, date_str,
                   html_content, save_result, diff_result, existed, store_vars, lib_vars>>

\* generate_diff up to open(diff_file, 'w')
DiffOpen ==
    /\ pc = "diff_open"
    /\ LET new_file == NewFilePath(site_name, date_str) IN
       \E fault \in {"mkdir", "write"} :
          /\ diffs' = generate_diff(diffs, versions, site_name, previous_version, new_file,
                                    date_str, fault)
          /\ IF /\ fault = "write"
                /\ Readable(versions, previous_version)
                /\ Readable(versions, new_file)
             THEN pc' = "diff_write" /\ diff_result' = diff_result /\ ret' = ret
             ELSE /\ pc' = StepAfter("diff", TRUE)
                  /\ diff_result' = None
                  /\ ret' = TRUE
    /\ UNCHANGED <<versions, today, idx, success_count, rets, runs, response, date_str,
                   html_content, save_result, previous_version, existed, store_vars, lib_vars>>

\* a process_url that returns what generate_diff returned
DiffWriteReturnsResult ==
    /\ pc = "diff_write"
    /\ LET new_file == NewFilePath(site_name, date_str) IN
       \E fault \in {"none", "write"} :
          /\ diffs' = generate_diff(diffs, versions, site_name, previous_version, new_file,
                                    date_str, fault)
          /\ diff_result' = DiffResult(versions, site_name, previous_version, new_file,
                                       date_str, fault)
    /\ pc' = StepAfter("diff", TRUE)
    /\ ret' = (diff_result' # None)
    /\ UNCHANGED <<versions, today, idx, success_count, rets, runs, response, date_str,
                   html_content, save_result, previous_version, existed, store_vars, lib_vars>>

\* f.write(enhanced_diff_html) and the close of the report
DiffWrite ==
    /\ pc = "diff_write"
    /\ LET new_file == NewFilePath(site_name, date_str) IN
       \E fault \in {"none", "write"} :
          /\ diffs' = generate_diff(diffs, versions, site_name, previous_version, new_file,
                                    date_str, fault)
          /\ diff_result' = DiffResult(versions, site_name, previous_version, new_file,
                                       date_str, fault)
    /\ pc' = StepAfter("diff", TRUE)
    /\ ret' = TRUE
    /\ UNCHANGED <<versions, today, idx, success_count, rets, runs, response, date_str,
                   html_content, save_result, previous_version, existed, store_vars, lib_vars>>

\* a loop that gives up the rest of the batch at the first target that failed
ReturnStopsOnFailure ==
    /\ pc = "return"
    /\ success_count' = IF ret THEN success_count + 1 ELSE success_count
    /\ rets' = Append(rets, ret)
    /\ IF idx < Len(urls) /\ ret
       THEN idx' = idx + 1 /\ pc' = "fetch"
       ELSE idx' = idx /\ pc' = "done"
    /\ ResetTarget
    /\ UNCHANGED <<versions, diffs, today, runs, store_vars, lib_vars>>

\* process_url has returned: run() counts a success, sleeps, takes the next url
Return ==
    /\ pc = "return"
    /\ success_count' = IF ret THEN success_count + 1 ELSE success_count
    /\ rets' = Append(rets, ret)
    /\ IF idx < Len(urls)
       THEN idx' = idx + 1 /\ pc' = "fetch"
       ELSE idx' = idx /\ pc' = "done"
    /\ ResetTarget
    /\ UNCHANGED <<versions, diffs, today, runs, store_vars, lib_vars>>

\* the run is stopped from outside (KeyboardInterrupt, a kill) wherever it is
Interrupt ==
    /\ pc \notin {"idle", "done", "interrupted"}
    /\ pc' = "interrupted"
    /\ idx' = 1
    /\ success_count' = 0
    /\ rets' = <<>>
    /\ ResetTarget
    /\ UNCHANGED <<versions, diffs, today, runs, store_vars, lib_vars>>

Next ==
    \/ RunStart
    \/ Fetch
    \/ SaveOpen
    \/ SaveWrite
    \/ GetPrevious
    \/ DiffOpen
    \/ DiffWrite
    \/ Return
    \/ Interrupt

Spec == Init /\ [][Next]_vars

\* the steps of a run that nothing stops from outside
NextRun ==
    \/ RunStart
    \/ Fetch
    \/ SaveOpen
    \/ SaveWrite
    \/ GetPrevious
    \/ DiffOpen
    \/ DiffWrite
    \/ Return

\* run() left to itself: one thread that takes its next statement, every
\* request under a timeout (session.get(url, timeout=30))
SpecRun == Init /\ [][NextRun]_vars /\ WF_vars(NextRun)

(***************************************************************************)
(* The archive keys: get_site_name applied to the url_info of two rows of  *)
(* a sheet, and the store called with the keys it gave.                    *)
(***************************************************************************)
\* a cell of the column NO. that pandas read as the float n.0 (a column
\* with a blank cell is read as float64); the integers stand for themselves
Float(n) == -(n + 1)

\* row['NO.']
Numbers == {1, 2, Float(1), Float(2)}

\* the two columns of URLs with the language and type read_urls_from_excel
\* gives them
Columns == {[language |-> "en", type |-> "reference"], [language |-> "zh", type |-> "preview"]}

SourceUrls == {urls[i].url : i \in 1..Len(urls)}

\* the url_entries read_urls_from_excel can build
UrlInfos ==
    {[url |-> u, number |-> n, language |-> c.language, type |-> c.type] :
        u \in SourceUrls, n \in Numbers, c \in Columns}

\* the days of the two runs
KeyDates == {DateList[1], DateList[2]}

\* the page of a target, a different document for each
PageOf(i) == IF i = 1 THEN 1 ELSE 2

KeySite(i) == get_site_name(targets[i])

InitKeys ==
    /\ versions = [s \in {} |-> EmptyDir]
    /\ saved = [p \in SiteNames \X Dates |-> NoContent]
    /\ InitLocals
    /\ targets \in UrlInfos \X UrlInfos
    /\ kept = [p \in {1, 2} \X KeyDates |-> NoContent]
    /\ NoExtract /\ NoDiff /\ NoFetch /\ NoReport

\* process_url's site_name = get_site_name(url_info) and its save
KeySave(i, date) ==
    /\ versions' = save_webpage_version(versions, KeySite(i), PageOf(i), Strftime(date), "none")
    /\ kept' = [kept EXCEPT ![<<i, date>>] = PageOf(i)]
    /\ call' = [op |-> "save", site |-> KeySite(i), date |-> date, follows |-> None,
                replaced |-> Readable(versions, NewFilePath(KeySite(i), Strftime(date)))]
    /\ previous_version' = Pending
    /\ UNCHANGED <<diffs, run_vars, saved, response, date_str, html_content, save_result,
                   diff_result, ret, existed, targets, extract_vars, diff_vars,
                   fetch_vars, report_vars>>

\* process_url's get_previous_version(site_name)
KeyPrevious(i) ==
    /\ previous_version' = get_previous_version(versions, KeySite(i))
    /\ call' = [op |-> "previous", site |-> KeySite(i), date |-> None,
                follows |-> IF call.op = "save" /\ call.site = KeySite(i) THEN call.date ELSE None,
                replaced |-> FALSE]
    /\ UNCHANGED <<versions, diffs, run_vars, saved, response, date_str, html_content,
                   save_result, diff_result, ret, existed, key_vars, extract_vars, diff_vars,
                   fetch_vars, report_vars>>

NextKeys ==
    \/ \E i \in {1, 2}, date \in KeyDates : KeySave(i, date)
    \/ \E i \in {1, 2} : KeyPrevious(i)

SpecKeys == InitKeys /\ [][NextKeys]_vars

(***************************************************************************)
(* analyze_changes: difflib.SequenceMatcher(None, old, new).get_opcodes()  *)
(* and the statistics counted from it.  Positions are Python's, from 0.    *)
(* autojunk only acts on a second sequence of 200 units or more, so no     *)
(* unit is junk here.                                                      *)
(***************************************************************************)
\* how long the unit sequences given to analyze_changes are at most
MaxUnits == 3

\* the labels of the text units ("TITLE: A", "PARAGRAPH: hello", ...)
Units == {"TITLE: A", "H1: News", "PARAGRAPH: hello", "PARAGRAPH: hello world"}

UnitSeqs == UNION {[1..n -> Units] : n \in 0..MaxUnits}

\* seq[i] of Python
At(seq, i) == seq[i + 1]

Max(x, y) == IF x >= y THEN x ELSE y

RECURSIVE j2lenSkipFirst(_, _, _, _, _, _)
\* a j2len that never counts the first unit of the window
j2lenSkipFirst(a, b, alo, blo, i, j) ==
    IF i <= alo \/ j < blo THEN 0
    ELSE IF At(a, i) # At(b, j) THEN 0
    ELSE j2lenSkipFirst(a, b, alo, blo, i - 1, j - 1) + 1

RECURSIVE j2len(_, _, _, _, _, _)
\* find_longest_match's j2len[j] in the row of i: the length of the longest
\* run of equal units that ends with a[i] and b[j] inside a[alo:], b[blo:]
j2len(a, b, alo, blo, i, j) ==
    IF i < alo \/ j < blo THEN 0
    ELSE IF At(a, i) # At(b, j) THEN 0
    ELSE j2len(a, b, alo, blo, i - 1, j - 1) + 1

\* a search that keeps, among the blocks of the greatest size that end at the
\* first i, the one of the last j
FindLongestLastJ(a, b, alo, ahi, blo, bhi) ==
    LET ends == (alo..(ahi - 1)) \X (blo..(bhi - 1))
        k(e) == j2len(a, b, alo, blo, e[1], e[2])
        matches == {e \in ends : k(e) > 0}
    IN  IF matches = {} THEN <<alo, blo, 0>>
        ELSE LET bestsize == CHOOSE n \in 1..Len(a) :
                                 /\ \E e \in matches : k(e) = n
                                 /\ \A e \in matches : k(e) <= n
                 firsts == {e \in matches : k(e) = bestsize}
                 best == CHOOSE e \in firsts :
                             \A f \in firsts :
                                 e[1] < f[1] \/ (e[1] = f[1] /\ e[2] >= f[2])
             IN  <<best[1] - bestsize + 1, best[2] - bestsize + 1, bestsize>>

\* the first block of the greatest size in the order the loops meet the
\* blocks (i ascending, then j ascending; "if k > bestsize" keeps the first),
\* as <<besti, bestj, bestsize>>
find_longest_match(a, b, alo, ahi, blo, bhi) ==
    LET ends == (alo..(ahi - 1)) \X (blo..(bhi - 1))
        k(e) == j2len(a, b, alo, blo, e[1], e[2])
        matches == {e \in ends : k(e) > 0}
    IN  IF matches = {} THEN <<alo, blo, 0>>
        ELSE LET bestsize == CHOOSE n \in 1..Len(a) :
                                 /\ \E e \in matches : k(e) = n
                                 /\ \A e \in matches : k(e) <= n
                 firsts == {e \in matches : k(e) = bestsize}
                 best == CHOOSE e \in firsts :
                             \A f \in firsts :
                                 e[1] < f[1] \/ (e[1] = f[1] /\ e[2] <= f[2])
             IN  <<best[1] - bestsize + 1, best[2] - bestsize + 1, bestsize>>

RECURSIVE MatchingBlocksIn(_, _, _, _, _, _)
\* get_matching_blocks' queue: the longest match of a window, then the same
\* for the windows to its left and to its right; matching_blocks.sort()
\* puts the blocks of the left window before it and those of the right after
MatchingBlocksIn(a, b, alo, ahi, blo, bhi) ==
    LET x == find_longest_match(a, b, alo, ahi, blo, bhi)
        i == x[1]
        j == x[2]
        k == x[3]
    IN  IF k = 0 THEN <<>>
        ELSE (IF alo < i /\ blo < j THEN MatchingBlocksIn(a, b, alo, i, blo, j) ELSE <<>>)
             \o <<x>>
             \o (IF i + k < ahi /\ j + k < bhi
                 THEN MatchingBlocksIn(a, b, i + k, ahi, j + k, bhi) ELSE <<>>)

RECURSIVE NonAdjacent(_, _)
\* the loop that joins adjacent blocks; cur is <<i1, j1, k1>>
NonAdjacent(blocks, cur) ==
    IF blocks = <<>> THEN (IF cur[3] > 0 THEN <<cur>> ELSE <<>>)
    ELSE LET nxt == Head(blocks) IN
         IF cur[1] + cur[3] = nxt[1] /\ cur[2] + cur[3] = nxt[2]
         THEN NonAdjacent(Tail(blocks), <<cur[1], cur[2], cur[3] + nxt[3]>>)
         ELSE (IF cur[3] > 0 THEN <<cur>> ELSE <<>>) \o NonAdjacent(Tail(blocks), nxt)

\* the blocks without the sentinel
MatchingBlocksNoSentinel(a, b) ==
    NonAdjacent(MatchingBlocksIn(a, b, 0, Len(a), 0, Len(b)), <<0, 0, 0>>)

\* SequenceMatcher.get_matching_blocks(), with its sentinel (la, lb, 0)
get_matching_blocks(a, b) ==
    NonAdjacent(MatchingBlocksIn(a, b, 0, Len(a), 0, Len(b)), <<0, 0, 0>>)
        \o << <<Len(a), Len(b), 0>> >>

Opcode(tag, i1, i2, j1, j2) == [tag |-> tag, i1 |-> i1, i2 |-> i2, j1 |-> j1, j2 |-> j2]

RECURSIVE OpcodesFrom(_, _, _)
\* the loop of get_opcodes over the matching blocks, standing at a[i], b[j]
OpcodesFrom(blocks, i, j) ==
    IF blocks = <<>> THEN <<>>
    ELSE LET ai == Head(blocks)[1]
             bj == Head(blocks)[2]
             size == Head(blocks)[3]
             tag == CASE i < ai /\ j < bj -> "replace"
                      [] i < ai /\ j >= bj -> "delete"
                      [] i >= ai /\ j < bj -> "insert"
                      [] OTHER -> ""
         IN  (IF tag # "" THEN <<Opcode(tag, i, ai, j, bj)>> ELSE <<>>)
             \o (IF size > 0 THEN <<Opcode("equal", ai, ai + size, bj, bj + size)>> ELSE <<>>)
             \o OpcodesFrom(Tail(blocks), ai + size, bj + size)

\* the opcodes of the two sequences taken the other way round
OpcodesOfSwapped(a, b) == OpcodesFrom(get_matching_blocks(b, a), 0, 0)

\* SequenceMatcher(None, a, b).get_opcodes()
get_opcodes(a, b) == OpcodesFrom(get_matching_blocks(a, b), 0, 0)

RECURSIVE Gcd(_, _)
Gcd(x, y) == IF y = 0 THEN x ELSE Gcd(y, x % y)

\* the quotient num / den in lowest terms; the float of the code is the
\* rounding of it
Fraction(num, den) ==
    IF num = 0 THEN [num |-> 0, den |-> 1]
    ELSE [num |-> num \div Gcd(num, den), den |-> den \div Gcd(num, den)]

\* the counters as analyze_changes sets them before the loop
NoChanges == [added |-> 0, removed |-> 0, modified |-> 0, unchanged |-> 0, total_changes |-> 0]

\* a loop body that counts a replace run by its shorter side
CountReplaceByMin(counts, op) ==
    CASE op.tag = "replace" ->
            LET n == IF op.i2 - op.i1 <= op.j2 - op.j1 THEN op.i2 - op.i1 ELSE op.j2 - op.j1
            IN  [counts EXCEPT !.modified = @ + n, !.total_changes = @ + n]
      [] op.tag = "delete" ->
            [counts EXCEPT !.removed = @ + (op.i2 - op.i1), !.total_changes = @ + (op.i2 - op.i1)]
      [] op.tag = "insert" ->
            [counts EXCEPT !.added = @ + (op.j2 - op.j1), !.total_changes = @ + (op.j2 - op.j1)]
      [] op.tag = "equal" ->
            [counts EXCEPT !.unchanged = @ + (op.i2 - op.i1)]
      [] OTHER -> counts

\* the body of "for tag, i1, i2, j1, j2 in matcher.get_opcodes()"
Count(counts, op) ==
    CASE op.tag = "replace" ->
            [counts EXCEPT !.modified = @ + Max(op.i2 - op.i1, op.j2 - op.j1),
                           !.total_changes = @ + Max(op.i2 - op.i1, op.j2 - op.j1)]
      [] op.tag = "delete" ->
            [counts EXCEPT !.removed = @ + (op.i2 - op.i1), !.total_changes = @ + (op.i2 - op.i1)]
      [] op.tag = "insert" ->
            [counts EXCEPT !.added = @ + (op.j2 - op.j1), !.total_changes = @ + (op.j2 - op.j1)]
      [] op.tag = "equal" ->
            [counts EXCEPT !.unchanged = @ + (op.i2 - op.i1)]
      [] OTHER -> counts

RECURSIVE CountAll(_, _)
\* the loop over the opcodes
CountAll(counts, opcodes) ==
    IF opcodes = <<>> THEN counts ELSE CountAll(Count(counts, Head(opcodes)), Tail(opcodes))

\* a percentage without the factor 100
ShareOfSections(total_changes, total_sections) ==
    IF total_sections > 0 THEN Fraction(total_changes, total_sections) ELSE Fraction(0, 1)

\* "if total_sections > 0: (total_changes / total_sections) * 100, else 0"
ChangePercentage(total_changes, total_sections) ==
    IF total_sections > 0 THEN Fraction(total_changes * 100, total_sections) ELSE Fraction(0, 1)

\* a dictionary whose net_change is old minus new
StatsNetReversed(counts, percentage, old_total, new_total) ==
    [added |-> counts.added, removed |-> counts.removed, modified |-> counts.modified,
     unchanged |-> counts.unchanged, total_changes |-> counts.total_changes,
     change_percentage |-> percentage,
     old_total |-> old_total, new_total |-> new_total, net_change |-> old_total - new_total]

Stats(counts, percentage, old_total, new_total) ==
    [added |-> counts.added, removed |-> counts.removed, modified |-> counts.modified,
     unchanged |-> counts.unchanged, total_changes |-> counts.total_changes,
     change_percentage |-> percentage,
     old_total |-> old_total, new_total |-> new_total, net_change |-> new_total - old_total]

\* a fallback that reports empty sequences
FallbackOfNothing(old, new) == Stats(NoChanges, Fraction(0, 1), 0, 0)

\* the dictionary of the except branch
Fallback(old, new) == Stats(NoChanges, Fraction(0, 1), Len(old), Len(new))

\* analyze_changes(old_text_sections, new_text_sections); raised says that
\* the try block raised
analyze_changes(old, new, raised) ==
    IF raised THEN Fallback(old, new)
    ELSE LET counts == CountAll(NoChanges, get_opcodes(old, new))
         IN  Stats(counts, ChangePercentage(counts.total_changes, Len(old) + Len(new)),
                   Len(old), Len(new))

\* changes before analyze_changes was called
NotAnalyzed == [done |-> FALSE, raised |-> FALSE, stats |-> Fallback(<<>>, <<>>)]

InitDiff ==
    /\ versions = [s \in {} |-> EmptyDir]
    /\ saved = [p \in SiteNames \X Dates |-> NoContent]
    /\ InitLocals
    /\ old_text_sections \in UnitSeqs
    /\ new_text_sections \in UnitSeqs
    /\ changes = NotAnalyzed
    /\ NoKeys /\ NoExtract /\ NoFetch /\ NoReport

\* changes = self.analyze_changes(old_text_sections, new_text_sections)
AnalyzeChanges ==
    /\ ~changes.done
    /\ \E raised \in BOOLEAN :
          changes' = [done |-> TRUE, raised |-> raised,
                      stats |-> analyze_changes(old_text_sections, new_text_sections, raised)]
    /\ UNCHANGED <<versions, diffs, run_vars, target_vars, store_vars, key_vars, extract_vars,
                   fetch_vars, report_vars, old_text_sections, new_text_sections>>

SpecDiff == InitDiff /\ [][AnalyzeChanges]_vars

(***************************************************************************)
(* extract_text_content.  A document is the sequence of its elements in    *)
(* document order, each with its depth in the tree, the text directly      *)
(* inside it and its href; the elements inside an element are the ones     *)
(* that follow it at a greater depth.                                      *)
(***************************************************************************)
\* how many elements a document has at most
MaxNodes == 4

Space == 32

\* "hello world", 11 characters
HelloWorld == <<104, 101, 108, 108, 111, 32, 119, 111, 114, 108, 100>>

Element(tag, depth, text, href) == [tag |-> tag, depth |-> depth, text |-> text, href |-> href]

\* the elements this specification builds documents from
Tags == {"title", "h1", "h2", "p", "ul", "li", "a"}

\* the elements that are given elements inside them
Containers == {"ul", "li", "noscript"}

\* f'h{i}'
HeadingTag(i) == <<"h1", "h2", "h3", "h4", "h5", "h6">>[i]

\* the positions of the elements inside element i
Descendants(doc, i) ==
    {j \in (i + 1)..Len(doc) : \A k \in (i + 1)..j : doc[k].depth > doc[i].depth}

\* what is left after script.decompose() for script, style and noscript
Live(doc) ==
    {i \in 1..Len(doc) :
        /\ doc[i].tag \notin {"script", "style", "noscript"}
        /\ \A k \in 1..(i - 1) :
              doc[k].tag \in {"script", "style", "noscript"} => i \notin Descendants(doc, k)}

RECURSIVE Ascending(_)
\* a set of positions as the sequence in document order
Ascending(S) ==
    IF S = {} THEN <<>>
    ELSE LET first == CHOOSE i \in S : \A j \in S : i <= j
         IN  <<first>> \o Ascending(S \ {first})

\* soup.find_all(tags)
FindAll(doc, tags) == Ascending({i \in Live(doc) : doc[i].tag \in tags})

\* lst.find_all('li')
FindAllIn(doc, lst, tags) ==
    Ascending({i \in Live(doc) \cap Descendants(doc, lst) : doc[i].tag \in tags})

RECURSIVE JoinTexts(_, _)
JoinTexts(doc, nodes) ==
    IF nodes = <<>> THEN <<>> ELSE doc[Head(nodes)].text \o JoinTexts(doc, Tail(nodes))

\* element.get_text(): the text of the element and of the elements inside it
get_text(doc, i) == JoinTexts(doc, Ascending(({i} \cup Descendants(doc, i)) \cap Live(doc)))

RECURSIVE Strip(_)
\* str.strip()
Strip(text) ==
    IF text = <<>> THEN text
    ELSE IF Head(text) = Space THEN Strip(Tail(text))
    ELSE IF text[Len(text)] = Space THEN Strip(SubSeq(text, 1, Len(text) - 1))
    ELSE text

\* text.startswith('http')
StartsWithHttp(text) == Len(text) >= 4 /\ SubSeq(text, 1, 4) = <<104, 116, 116, 112>>

\* one entry of text_sections: the label before the colon, the heading
\* level, the text, the href of a link, and the element it was made from
TextUnit(kind, level, doc, i) ==
    [kind |-> kind, level |-> level, text |-> Strip(get_text(doc, i)),
     href |-> doc[i].href, node |-> i]

\* the units of the elements at nodes
UnitsOf(kind, level, doc, nodes) ==
    [k \in 1..Len(nodes) |-> TextUnit(kind, level, doc, nodes[k])]

NonEmptyText(unit) == unit.text # <<>>

\* a filter that lets a text of 10 characters through
ParagraphOfTenOrMore(unit) == unit.text # <<>> /\ Len(unit.text) >= 10

\* "if text and len(text) > 10"
MeaningfulParagraph(unit) == unit.text # <<>> /\ Len(unit.text) > 10

\* "if text and len(text) > 2 and not text.startswith('http')"
MeaningfulLink(unit) ==
    unit.text # <<>> /\ Len(unit.text) > 2 /\ ~StartsWithHttp(unit.text)

\* title = soup.find('title') and its unit
TitleUnits(doc) ==
    LET titles == FindAll(doc, {"title"})
    IN  IF titles = <<>> THEN <<>>
        ELSE SelectSeq(UnitsOf("TITLE", 0, doc, <<Head(titles)>>), NonEmptyText)

RECURSIVE HeadingUnits(_, _)
\* "for i in range(1, 7)", standing at i
HeadingUnits(doc, i) ==
    IF i > 6 THEN <<>>
    ELSE SelectSeq(UnitsOf("H", i, doc, FindAll(doc, {HeadingTag(i)})), NonEmptyText)
         \o HeadingUnits(doc, i + 1)

ParagraphUnits(doc) ==
    SelectSeq(UnitsOf("PARAGRAPH", 0, doc, FindAll(doc, {"p"})), MeaningfulParagraph)

RECURSIVE ListItemUnits(_, _)
\* "for lst in lists: items = lst.find_all('li')"
ListItemUnits(doc, lists) ==
    IF lists = <<>> THEN <<>>
    ELSE SelectSeq(UnitsOf("LIST ITEM", 0, doc, FindAllIn(doc, Head(lists), {"li"})),
                   NonEmptyText)
         \o ListItemUnits(doc, Tail(lists))

LinkUnits(doc) == SelectSeq(UnitsOf("LINK", 0, doc, FindAll(doc, {"a"})), MeaningfulLink)

\* extract_text_content(html_content)
extract_text_content(doc) ==
    TitleUnits(doc) \o HeadingUnits(doc, 1) \o ParagraphUnits(doc)
        \o ListItemUnits(doc, FindAll(doc, {"ul", "ol"})) \o LinkUnits(doc)

\* text_sections before extract_text_content was called
NotExtracted == [done |-> FALSE, units |-> <<>>]

InitExtract ==
    /\ versions = [s \in {} |-> EmptyDir]
    /\ saved = [p \in SiteNames \X Dates |-> NoContent]
    /\ InitLocals
    /\ document = <<>>
    /\ text_sections = NotExtracted
    /\ NoKeys /\ NoDiff /\ NoFetch /\ NoReport

\* the next element of the markup: at the top, beside the last element or one
\* of the elements around it, or inside the last element
AppendElement(tag, depth, text) ==
    /\ ~text_sections.done
    /\ Len(document) < MaxNodes
    /\ depth = 1 \/ (document # <<>> /\ depth <= document[Len(document)].depth + 1)
    /\ depth > 1 =>
          \E k \in 1..Len(document) :
              /\ document[k].depth = depth - 1
              /\ document[k].tag \in Containers
              /\ Len(document) \in {k} \cup Descendants(document, k)
    /\ document' = Append(document, Element(tag, depth, text, <<>>))
    /\ UNCHANGED <<versions, diffs, run_vars, target_vars, store_vars, key_vars, diff_vars,
                   fetch_vars, report_vars, text_sections>>

\* text_sections = self.extract_text_content(html)
ExtractTextContent ==
    /\ ~text_sections.done
    /\ text_sections' = [done |-> TRUE, units |-> extract_text_content(document)]
    /\ UNCHANGED <<versions, diffs, run_vars, target_vars, store_vars, key_vars, diff_vars,
                   fetch_vars, report_vars, document>>

NextExtract ==
    \/ \E tag \in Tags, depth \in 1..MaxNodes, text \in {HelloWorld} :
           AppendElement(tag, depth, text)
    \/ ExtractTextContent

SpecExtract == InitExtract /\ [][NextExtract]_vars

\* "hello worl", 10 characters
HelloWorl == SubSeq(HelloWorld, 1, 10)

\* the texts of the paragraphs: none, blanks, 10 and 11 characters, and the
\* same between blanks
ParagraphTexts ==
    {<<>>, <<Space, Space>>, HelloWorl, HelloWorld,
     <<Space>> \o HelloWorl \o <<Space>>, <<Space>> \o HelloWorld \o <<Space>>}

\* documents of paragraphs, some of them inside a noscript block
NextParagraphs ==
    \/ \E depth \in 1..2, text \in ParagraphTexts : AppendElement("p", depth, text)
    \/ AppendElement("noscript", 1, <<>>)
    \/ ExtractTextContent

SpecParagraphs == InitExtract /\ [][NextParagraphs]_vars

(***************************************************************************)
(* fetch_webpage with the assets of the page: _download_and_embed_css,     *)
(* _download_and_embed_js and _download_and_embed_images.                  *)
(***************************************************************************)
MaxAssets == 3

\* an element of the page that can refer to an asset: its tag, how its href
\* or src stands ("url": an external reference, "data": a data: URI, "none":
\* no such attribute, "valueless": the attribute set to None) and the text
\* the element holds
AssetElement(tag, ref, content) == [tag |-> tag, ref |-> ref, content |-> content]

\* the text of an asset as the response carries it
AssetText == "fetched"

\* the elements of a parsed page: link rel=stylesheet with and without href,
\* script with src and with its own code, img with an external src and with
\* a data: URI
PageElements ==
    {AssetElement("link", "url", ""), AssetElement("link", "none", ""),
     AssetElement("script", "url", ""), AssetElement("script", "none", "own"),
     AssetElement("img", "url", ""), AssetElement("img", "data", "")}

\* soup = BeautifulSoup(response.content, 'html.parser')
Soups == UNION {[1..n -> PageElements] : n \in 0..MaxAssets}

\* the final status of the response to an asset request: OK, another success
\* (203 Non-Authoritative Information), a client error
AssetStatuses == {200, 203, 404}

\* what self.session.get(asset_url, timeout=10) can do: raise (no connection,
\* the timeout) or give a response
AssetResponses ==
    {[error |-> e, status_code |-> 0] : e \in {"ConnectionError", "Timeout"}}
        \cup {[error |-> "none", status_code |-> st] : st \in AssetStatuses}

\* the elements a loop makes a request for: find_all('link', rel='stylesheet')
\* with an href, find_all('script', src=True), find_all('img') with a src that
\* is no data: URI
Requested(el, tag) == el.tag = tag /\ el.ref = "url"

\* a loop's try block without its test of the status
EmbedAnyStatus(el, resp) ==
    IF resp.error # "none" THEN el
    ELSE CASE el.tag = "link"   -> AssetElement("style", "none", AssetText)
           [] el.tag = "script" -> AssetElement("script", "valueless", AssetText)
           [] OTHER             -> AssetElement("img", "data", AssetText)

\* what the try block of a loop leaves of the element it asked for: a link is
\* replaced with a style tag, a script gets the text and src = None, an img
\* the data: URI, when the request gave status 200; a request that raised is
\* logged and the element is as it was
Embed(el, resp) ==
    IF resp.error # "none" \/ resp.status_code # 200 THEN el
    ELSE CASE el.tag = "link"   -> AssetElement("style", "none", AssetText)
           [] el.tag = "script" -> AssetElement("script", "valueless", AssetText)
           [] OTHER             -> AssetElement("img", "data", AssetText)

\* one of the three loops over the soup
EmbedLoop(s, tag, responses) ==
    [i \in DOMAIN s |-> IF Requested(s[i], tag) THEN Embed(s[i], responses[i]) ELSE s[i]]

download_and_embed_css(s, responses) == EmbedLoop(s, "link", responses)
download_and_embed_js(s, responses) == EmbedLoop(s, "script", responses)
download_and_embed_images(s, responses) == EmbedLoop(s, "img", responses)

\* the requests of one loop, in the order of find_all
RequestsOf(s, tag, responses) ==
    LET nodes == Ascending({i \in DOMAIN s : Requested(s[i], tag)})
    IN  [k \in DOMAIN nodes |-> [node |-> nodes[k], response |-> responses[nodes[k]]]]

\* fetch_webpage before it was called
NotFetched == [done |-> FALSE, response |-> NoResponse, returned |-> FALSE, document |-> <<>>]

\* the request for the page raised, or raise_for_status did
PageFailed(resp) == resp = NoResponse \/ RaisesForStatus(resp.status)

\* what session.get(url, timeout=30) gives for the page of the soup
PageResponses == {resp \in Responses : resp = NoResponse \/ resp.body = FirstDoc}

InitFetch ==
    /\ versions = [s \in {} |-> EmptyDir]
    /\ saved = [p \in SiteNames \X Dates |-> NoContent]
    /\ InitLocals
    /\ soup \in Soups
    /\ asset_log = <<>>
    /\ page = NotFetched
    /\ NoKeys /\ NoExtract /\ NoDiff /\ NoReport

\* fetch_webpage(url): the request for the page, the three loops over the
\* soup and prettify; soup keeps the elements as they were parsed
FetchWebpage ==
    /\ ~page.done
    /\ \E resp \in PageResponses, responses \in [DOMAIN soup -> AssetResponses] :
          IF PageFailed(resp)
          THEN /\ page' = [done |-> TRUE, response |-> resp, returned |-> FALSE,
                           document |-> <<>>]
               /\ asset_log' = <<>>
          ELSE /\ page' = [done |-> TRUE, response |-> resp, returned |-> TRUE,
                           document |->
                               download_and_embed_images(
                                   download_and_embed_js(
                                       download_and_embed_css(soup, responses), responses),
                                   responses)]
               /\ asset_log' = RequestsOf(soup, "link", responses)
                                   \o RequestsOf(soup, "script", responses)
                                   \o RequestsOf(soup, "img", responses)
    /\ UNCHANGED <<versions, diffs, run_vars, target_vars, store_vars, key_vars, extract_vars,
                   diff_vars, report_vars, soup>>

SpecFetch == InitFetch /\ [][FetchWebpage]_vars

(***************************************************************************)
(* generate_diff from the two files it has read to the report it writes:   *)
(* extract_text_content on both, analyze_changes, difflib.HtmlDiff()       *)
(* .make_file (CPython 3.11) and the script create_enhanced_diff_html puts  *)
(* into the report.                                                        *)
(***************************************************************************)
MaxLines == 2

\* the units the try block of extract_text_content collects from a file
ReportSeqs == UNION {[1..n -> Units] : n \in 0..MaxLines}

\* an extraction that returns what it had collected when it raised
extracted_so_far(units, raised) == units

\* extract_text_content(html): the units, [] when its try block raised
extracted(units, raised) == IF raised THEN <<>> ELSE units

\* len(unit)
UnitLen(u) ==
    CASE u = "TITLE: A" -> 8
      [] u = "H1: News" -> 8
      [] u = "PARAGRAPH: hello" -> 16
      [] OTHER -> 22

\* the characters that SequenceMatcher(IS_CHARACTER_JUNK, x, y) matches, the
\* sum of the sizes of its matching blocks
Matches(x, y) ==
    CASE x = y -> UnitLen(x)
      [] x = "TITLE: A" -> 2
      [] x = "H1: News" /\ y = "TITLE: A" -> 2
      [] x = "H1: News" /\ y = "PARAGRAPH: hello" -> 4
      [] x = "H1: News" /\ y = "PARAGRAPH: hello world" -> 5
      [] y = "TITLE: A" -> 1
      [] x = "PARAGRAPH: hello" /\ y = "H1: News" -> 4
      [] x = "PARAGRAPH: hello world" /\ y = "H1: News" -> 5
      [] OTHER -> 16

\* the classes of the marks _qformat's '?' lines put on the two lines of a
\* synch pair: " world" is added to "PARAGRAPH: hello" or deleted from
\* "PARAGRAPH: hello world"; the side without marks gets no '?' line.  No
\* other pair of units is similar enough to be given to _qformat.
IntralineMarks(x, y) ==
    CASE x = "PARAGRAPH: hello" /\ y = "PARAGRAPH: hello world" ->
             [from |-> {}, to |-> {"diff_add"}]
      [] x = "PARAGRAPH: hello world" /\ y = "PARAGRAPH: hello" ->
             [from |-> {"diff_sub"}, to |-> {}]
      [] OTHER -> [from |-> {"diff_chg"}, to |-> {"diff_chg"}]

\* a line of Differ.compare: its code ("  ", "- ", "+ ", "? "), the unit, and
\* for a '?' line the classes of its marks
DiffLine(code, unit, marks) == [code |-> code, unit |-> unit, marks |-> marks]

\* Differ._dump(tag, x, lo, hi)
dump(code, x, lo, hi) == [k \in 1..(hi - lo) |-> DiffLine(code, At(x, lo + k - 1), {})]

\* Differ._plain_replace: the shorter block first
plain_replace(a, alo, ahi, b, blo, bhi) ==
    IF bhi - blo < ahi - alo
    THEN dump("+", b, blo, bhi) \o dump("-", a, alo, ahi)
    ELSE dump("-", a, alo, ahi) \o dump("+", b, blo, bhi)

\* Differ._qformat(aline, bline, atags, btags)
qformat(x, y) ==
    <<DiffLine("-", x, {})>>
        \o (IF IntralineMarks(x, y).from # {}
            THEN <<DiffLine("?", "", IntralineMarks(x, y).from)>> ELSE <<>>)
        \o <<DiffLine("+", y, {})>>
        \o (IF IntralineMarks(x, y).to # {}
            THEN <<DiffLine("?", "", IntralineMarks(x, y).to)>> ELSE <<>>)

RECURSIVE fancy_replace(_, _, _, _, _, _)
\* Differ._fancy_replace with Differ._fancy_helper for the blocks on both
\* sides of the synch pair: the pair of the best ratio above 0.74, the first
\* one the loops (j outside, i inside) meet; below the cutoff 0.75 the first
\* pair of identical lines, and without one _plain_replace
fancy_replace(a, alo, ahi, b, blo, bhi) ==
    LET pairs == (alo..(ahi - 1)) \X (blo..(bhi - 1))
        m(p) == Matches(At(a, p[1]), At(b, p[2]))
        t(p) == UnitLen(At(a, p[1])) + UnitLen(At(b, p[2]))
        Before(p, q) == p[2] < q[2] \/ (p[2] = q[2] /\ p[1] <= q[1])
        close == {p \in pairs : At(a, p[1]) # At(b, p[2]) /\ 200 * m(p) > 74 * t(p)}
        identical == {p \in pairs : At(a, p[1]) = At(b, p[2])}
        best == CHOOSE p \in close :
                    \A q \in close :
                        \/ m(p) * t(q) > m(q) * t(p)
                        \/ m(p) * t(q) = m(q) * t(p) /\ Before(p, q)
        eq == CHOOSE p \in identical : \A q \in identical : Before(p, q)
        synch == close # {} /\ 200 * m(best) >= 75 * t(best)
        helper(lo1, hi1, lo2, hi2) ==
            IF lo1 < hi1
            THEN (IF lo2 < hi2 THEN fancy_replace(a, lo1, hi1, b, lo2, hi2)
                  ELSE dump("-", a, lo1, hi1))
            ELSE (IF lo2 < hi2 THEN dump("+", b, lo2, hi2) ELSE <<>>)
    IN  IF ~synch /\ identical = {} THEN plain_replace(a, alo, ahi, b, blo, bhi)
        ELSE LET p == IF synch THEN best ELSE eq
             IN  helper(alo, p[1], blo, p[2])
                     \o (IF synch THEN qformat(At(a, p[1]), At(b, p[2]))
                         ELSE <<DiffLine(" ", At(a, p[1]), {})>>)
                     \o helper(p[1] + 1, ahi, p[2] + 1, bhi)

RECURSIVE CompareRuns(_, _, _)
\* the loop of Differ.compare over the opcodes
CompareRuns(a, b, opcodes) ==
    IF opcodes = <<>> THEN <<>>
    ELSE LET op == Head(opcodes) IN
         (CASE op.tag = "replace" -> fancy_replace(a, op.i1, op.i2, b, op.j1, op.j2)
            [] op.tag = "delete" -> dump("-", a, op.i1, op.i2)
            [] op.tag = "insert" -> dump("+", b, op.j1, op.j2)
            [] OTHER -> dump(" ", a, op.i1, op.i2))
         \o CompareRuns(a, b, Tail(opcodes))

\* Differ(linejunk=None, charjunk=IS_CHARACTER_JUNK).compare(a, b)
compare(a, b) == CompareRuns(a, b, get_opcodes(a, b))

\* a cell of the table: a line with the classes of the spans in it, a blank
\* line put in to keep the two sides level, or no line
Cell(text, marks) == [there |-> TRUE, text |-> text, marks |-> marks]
BlankLine == Cell("", {})
NoLine == [there |-> FALSE, text |-> "", marks |-> {}]

RECURSIVE line_iterator(_, _)
\* _mdiff's _line_iterator with num_blanks_pending = pending: what it yields
\* (from_line, to_line) for the codes of the next four lines, 'X' standing
\* for the end; Blanks are the blank lines that catch up, on the to side
\* below 0 and on the from side above
line_iterator(lines, pending) ==
    LET Yield(from, to) == [from |-> from, to |-> to]
        CodeAt(k) == IF k <= Len(lines) THEN lines[k].code ELSE "X"
        StartsWith(codes) == \A k \in 1..Len(codes) : CodeAt(k) = codes[k]
        Blanks(n) ==
            IF n < 0 THEN [k \in 1..(-n) |-> Yield(NoLine, BlankLine)]
            ELSE [k \in 1..n |-> Yield(BlankLine, NoLine)]
        rest(n) == SubSeq(lines, n + 1, Len(lines))
        sub == Cell(lines[1].unit, {"diff_sub"})
        add == Cell(lines[1].unit, {"diff_add"})
    IN  IF StartsWith(<<"X">>) THEN Blanks(pending)
        ELSE IF StartsWith(<<"-", "?", "+", "?">>)
        THEN <<Yield(Cell(lines[1].unit, lines[2].marks), Cell(lines[3].unit, lines[4].marks))>>
                 \o line_iterator(rest(4), pending)
        ELSE IF StartsWith(<<"-", "-", "+", "+">>)
        THEN <<Yield(sub, NoLine)>> \o line_iterator(rest(1), pending - 1)
        ELSE IF \/ StartsWith(<<"-", "-", "?", "+">>)
                \/ StartsWith(<<"-", "-", "+">>)
                \/ StartsWith(<<"-", " ">>)
        THEN Blanks(pending - 1) \o <<Yield(sub, NoLine)>> \o line_iterator(rest(1), 0)
        ELSE IF StartsWith(<<"-", "+", "?">>)
        THEN <<Yield(Cell(lines[1].unit, {}), Cell(lines[2].unit, lines[3].marks))>>
                 \o line_iterator(rest(3), pending)
        ELSE IF StartsWith(<<"-", "?", "+">>)
        THEN <<Yield(Cell(lines[1].unit, lines[2].marks), Cell(lines[3].unit, {}))>>
                 \o line_iterator(rest(3), pending)
        ELSE IF StartsWith(<<"-">>)
        THEN <<Yield(sub, NoLine)>> \o line_iterator(rest(1), pending - 1)
        ELSE IF StartsWith(<<"+", "-", "-">>)
        THEN <<Yield(NoLine, add)>> \o line_iterator(rest(1), pending + 1)
        ELSE IF StartsWith(<<"+", " ">>) \/ StartsWith(<<"+", "-">>)
        THEN Blanks(pending + 1) \o <<Yield(NoLine, add)>> \o line_iterator(rest(1), 0)
        ELSE IF StartsWith(<<"+">>)
        THEN <<Yield(NoLine, add)>> \o line_iterator(rest(1), pending + 1)
        ELSE <<Yield(Cell(lines[1].unit, {}), Cell(lines[1].unit, {}))>>
                 \o line_iterator(rest(1), pending)

\* a tr of the report: what it is, its two cells and the classes diff_add,
\* diff_sub, diff_chg found in it
Row(kind, from, to, marks) == [kind |-> kind, from |-> from, to |-> to, marks |-> marks]

\* _mdiff's _line_pair_iterator: the from lines and the to lines, paired in
\* the order they came
line_pair_iterator(yields) ==
    LET IsLine(cell) == cell.there
        fromlines == SelectSeq([k \in DOMAIN yields |-> yields[k].from], IsLine)
        tolines == SelectSeq([k \in DOMAIN yields |-> yields[k].to], IsLine)
        n == IF Len(fromlines) <= Len(tolines) THEN Len(fromlines) ELSE Len(tolines)
    IN  [k \in 1..n |->
            Row("line", fromlines[k], tolines[k], fromlines[k].marks \cup tolines[k].marks)]

\* the rows of HtmlDiff.make_table's tbody: one for each pair of _mdiff, and
\* a row "Empty File" when there is none
data_rows(fromlines, tolines) ==
    LET pairs == line_pair_iterator(line_iterator(compare(fromlines, tolines), 0))
    IN  IF pairs = <<>> THEN <<Row("empty", NoLine, NoLine, {})>> ELSE pairs

\* the row of thead, made because fromdesc and todesc are given
header_row == Row("header", NoLine, NoLine, {})

\* the rows of the table class="diff" summary="Legends" that make_file puts
\* after the table: its title, the row that holds the tables Colors and
\* Links, and the rows of these two
legend_rows ==
    << Row("legend", NoLine, NoLine, {}),
       Row("legend", NoLine, NoLine, {"diff_add", "diff_chg", "diff_sub"}),
       Row("legend", NoLine, NoLine, {}),
       Row("legend", NoLine, NoLine, {"diff_add"}),
       Row("legend", NoLine, NoLine, {"diff_chg"}),
       Row("legend", NoLine, NoLine, {"diff_sub"}),
       Row("legend", NoLine, NoLine, {}),
       Row("legend", NoLine, NoLine, {}),
       Row("legend", NoLine, NoLine, {}),
       Row("legend", NoLine, NoLine, {}) >>

\* difflib.HtmlDiff().make_file(old_text_sections, new_text_sections,
\* fromdesc, todesc), as the tr elements of its tables in document order
make_file(fromlines, tolines) ==
    <<header_row>> \o data_rows(fromlines, tolines) \o legend_rows

\* row.querySelector('.diff_add, .diff_sub, .diff_chg') !== null
HasChange(row) == row.marks # {}

\* the class the script's loop gives a row
ChangeIndicator(row) ==
    IF "diff_add" \in row.marks THEN "added"
    ELSE IF "diff_sub" \in row.marks THEN "removed"
    ELSE IF "diff_chg" \in row.marks THEN "changed"
    ELSE "none"

\* the methods of a NodeList, which is what querySelectorAll returns
NodeListMethods == {"item", "entries", "forEach", "keys", "values"}

\* setupDiffInterface() on rows = document.querySelectorAll('.diff tr'):
\* rows.filter is called first, and a call of a method rows does not have
\* raises TypeError before changeRows is assigned and before a row is given
\* its class
setupDiffInterface(rows) ==
    IF "filter" \notin NodeListMethods
    THEN [raised |-> TRUE, changeRows |-> <<>>,
          classes |-> [k \in DOMAIN rows |-> "none"]]
    ELSE [raised |-> FALSE,
          changeRows |-> Ascending({k \in DOMAIN rows : HasChange(rows[k])}),
          classes |-> [k \in DOMAIN rows |-> ChangeIndicator(rows[k])]]

\* no report yet, and the report not yet opened in a browser
NotWritten ==
    [done |-> FALSE, raised |-> [old |-> FALSE, new |-> FALSE], rows |-> <<>>,
     total_changes |-> 0]
NotLoaded == [loaded |-> FALSE, raised |-> FALSE, changeRows |-> <<>>, classes |-> <<>>]

InitReport ==
    /\ versions = [s \in {} |-> EmptyDir]
    /\ saved = [p \in SiteNames \X Dates |-> NoContent]
    /\ InitLocals
    /\ files \in [old : ReportSeqs, new : ReportSeqs]
    /\ old_text_sections = <<>>
    /\ new_text_sections = <<>>
    /\ changes = NotAnalyzed
    /\ diff_file = NotWritten
    /\ change_rows = NotLoaded
    /\ NoKeys /\ NoExtract /\ NoFetch

\* generate_diff from "Extract text content from both versions" to the write
\* of the report, for two files that were read and a report file that can
\* be written (DiffOpen and DiffWrite have what fails around it): each
\* extract_text_content and analyze_changes return or raise inside
BuildReport ==
    /\ ~diff_file.done
    /\ \E old_raised, new_raised, raised \in BOOLEAN :
          /\ old_text_sections' = extracted(files.old, old_raised)
          /\ new_text_sections' = extracted(files.new, new_raised)
          /\ changes' = [done |-> TRUE, raised |-> raised,
                         stats |-> analyze_changes(old_text_sections', new_text_sections',
                                                   raised)]
          /\ diff_file' = [done |-> TRUE,
                           raised |-> [old |-> old_raised, new |-> new_raised],
                           rows |-> make_file(old_text_sections', new_text_sections'),
                           total_changes |-> changes'.stats.total_changes]
    /\ UNCHANGED <<versions, diffs, run_vars, target_vars, store_vars, key_vars, extract_vars,
                   fetch_vars, files, change_rows>>

\* a browser opens the report: DOMContentLoaded calls setupDiffInterface
LoadReport ==
    /\ diff_file.done
    /\ ~change_rows.loaded
    /\ LET result == setupDiffInterface(diff_file.rows)
       IN  change_rows' = [loaded |-> TRUE, raised |-> result.raised,
                           changeRows |-> result.changeRows, classes |-> result.classes]
    /\ UNCHANGED <<versions, diffs, run_vars, target_vars, store_vars, key_vars, extract_vars,
                   fetch_vars, diff_vars, files, diff_file>>

NextReport ==
    \/ BuildReport
    \/ LoadReport

SpecReport == InitReport /\ [][NextReport]_vars

(***************************************************************************)
(* The properties of the store and of process_url.                         *)
(***************************************************************************)
AllDates == {DateList[i] : i \in 1..Len(DateList)}

SnapshotPath(site, date) == <<site, VersionFileName(Strftime(date))>>

\* the dates for which the archive of site holds a file
ArchivedDates(site) == {d \in AllDates : Readable(versions, SnapshotPath(site, d))}

\* the files of the archive of site
Snapshots(site) == IF site \in DOMAIN versions THEN DOMAIN versions[site] ELSE {}

OlderThan(site, date) == {d \in ArchivedDates(site) : DateBefore(d, date)}

\* the latest day of a non-empty set of dates
Latest(S) == CHOOSE d \in S : \A e \in S : e = d \/ DateBefore(e, d)

\* C1: when the archive of a target holds two or more dates,
\* get_previous_version returns the file of the second latest of them.
C1_PreviousIsSecondLatestDate ==
    (call.op = "previous" /\ Cardinality(ArchivedDates(call.site)) >= 2) =>
        LET archived == ArchivedDates(call.site)
        IN  previous_version = SnapshotPath(call.site, Latest(archived \ {Latest(archived)}))

\* the three days 2025-07-28, 29 and 30 are archived and previous() gave the 29th
C1_Witness ==
    /\ call.op = "previous"
    /\ ArchivedDates(call.site) = {<<2025, 7, 28>>, <<2025, 7, 29>>, <<2025, 7, 30>>}
    /\ previous_version = SnapshotPath(call.site, <<2025, 7, 29>>)

\* C2 as stated: previous() right after a save of date d that succeeded gives,
\* if anything, the latest archived snapshot strictly older than d, whatever
\* the archive held before.
C2_PreviousIsLatestOlderThanSaved ==
    (call.op = "previous" /\ call.follows # None /\ previous_version # None) =>
        /\ OlderThan(call.site, call.follows) # {}
        /\ previous_version = SnapshotPath(call.site, Latest(OlderThan(call.site, call.follows)))

\* C2 amended: the same, for a save whose date is the latest of the archive.
C2_PreviousIsLatestOlderThanLatestSaved ==
    (/\ call.op = "previous"
     /\ call.follows # None
     /\ call.follows = Latest(ArchivedDates(call.site))) =>
        IF OlderThan(call.site, call.follows) = {}
        THEN previous_version = None
        ELSE previous_version = SnapshotPath(call.site, Latest(OlderThan(call.site, call.follows)))

\* the 30th was saved on top of the 28th and 29th and previous() gave the 29th
C2_Witness ==
    /\ call.op = "previous"
    /\ call.follows = <<2025, 7, 30>>
    /\ ArchivedDates(call.site) = {<<2025, 7, 28>>, <<2025, 7, 29>>, <<2025, 7, 30>>}
    /\ previous_version = SnapshotPath(call.site, <<2025, 7, 29>>)

\* C5: the archive holds one file per date saved, and the file of a pair
\* whose last save succeeded holds the document of that save.
C5_SaveOverwrites ==
    /\ \A site \in DOMAIN versions :
          Cardinality(Snapshots(site)) = Cardinality(ArchivedDates(site))
    /\ \A p \in DOMAIN saved :
          saved[p] \in Docs =>
              /\ Readable(versions, SnapshotPath(p[1], p[2]))
              /\ ReadFile(versions, SnapshotPath(p[1], p[2])) = Whole(saved[p])

\* a save has replaced the file of its date, which now holds a document other
\* than the one the archive began with
C5_Witness ==
    /\ call.op = "save"
    /\ call.replaced
    /\ call.date = DateList[1]
    /\ saved[<<call.site, call.date>>] # FirstDoc
    /\ ReadFile(versions, SnapshotPath(call.site, call.date)) = Whole(saved[<<call.site, call.date>>])

\* process_url is past the call of get_previous_version
PreviousRead == previous_version # Pending

\* the day date_str names, while process_url is past the fetch
Today == DateList[today]

\* C3: while the archive of the target holds fewer than two snapshots,
\* get_previous_version gives None and no step of process_url writes a report.
C3_NoBaselineNoReport ==
    /\ [](PreviousRead /\ Cardinality(Snapshots(site_name)) < 2 =>
              /\ previous_version = None
              /\ diff_result = Pending
              /\ pc = "return")
    /\ [][Cardinality(Snapshots(site_name)) < 2 => diffs' = diffs]_vars

\* the first snapshot of a target has been saved and process_url returns
\* without a baseline
C3_Witness ==
    /\ pc = "return"
    /\ save_result = SnapshotPath(site_name, Today)
    /\ Snapshots(site_name) = {VersionFileName(date_str)}
    /\ previous_version = None
    /\ site_name \notin DOMAIN diffs

\* C4: whenever a run of date d has a baseline and a file of date d to
\* compare it with, be it the first or a later run of that date, the baseline
\* is the latest snapshot older than d and never the file of d itself.
C4_SameDayBaseline ==
    (/\ PreviousRead
     /\ previous_version # None
     /\ Readable(versions, NewFilePath(site_name, date_str))) =>
        /\ OlderThan(site_name, Today) # {}
        /\ previous_version = SnapshotPath(site_name, Latest(OlderThan(site_name, Today)))
        /\ previous_version # NewFilePath(site_name, date_str)

\* a second run of the same day, which has saved another document than the
\* archive began with, is about to compare it with the snapshot of the day
\* before, as the run that wrote the report of that day did
C4_Witness ==
    /\ pc = "diff_open"
    /\ existed
    /\ today = 2
    /\ previous_version = SnapshotPath(site_name, DateList[1])
    /\ save_result = NewFilePath(site_name, date_str)
    /\ html_content # FirstDoc
    /\ site_name \in DOMAIN diffs
    /\ DiffFileName(previous_version[2], date_str) \in DOMAIN diffs[site_name]
    /\ diffs[site_name][DiffFileName(previous_version[2], date_str)].complete

\* a step keeps the snapshot at path p as it is
Kept(p) == Readable(versions', p) /\ ReadFile(versions', p) = ReadFile(versions, p)

WholeSnapshots ==
    {p \in SiteNames \X {VersionFileName(Strftime(d)) : d \in AllDates} :
        Readable(versions, p) /\ ReadFile(versions, p).complete}

\* C6 as stated: no step changes or deletes a snapshot that has been written.
C6_SnapshotsImmutable == [][\A p \in WholeSnapshots : Kept(p)]_vars

\* C6 amended: no step deletes a snapshot, and the only step that changes one
\* is a save of the same target and date.
C6_OnlySameKeySaveReplaces ==
    [][\A p \in WholeSnapshots :
          /\ Readable(versions', p)
          /\ \/ Kept(p)
             \/ /\ pc \in {"save_open", "save_write"}
                /\ p = NewFilePath(site_name, date_str)]_vars

\* a save has replaced the snapshot of its day by another document and the
\* snapshot of the day before is still what the archive began with
C6_Witness ==
    /\ pc = "previous"
    /\ existed
    /\ today = 2
    /\ save_result = NewFilePath(site_name, date_str)
    /\ ReadFile(versions, save_result) = Whole(html_content)
    /\ Readable(versions, SnapshotPath(site_name, DateList[1]))
    /\ ReadFile(versions, SnapshotPath(site_name, DateList[1])) = Whole(FirstDoc)
    /\ html_content # FirstDoc

\* C7: get_previous_version is called only after save_webpage_version has
\* returned, and after a save that succeeded the archive holds the document
\* of this run when previous is read.
C7_SaveBeforePrevious ==
    PreviousRead =>
        /\ save_result # Pending
        /\ save_result # None =>
              /\ Readable(versions, save_result)
              /\ ReadFile(versions, save_result) = Whole(html_content)

\* previous has been read after a save that succeeded
C7_Witness ==
    /\ pc = "diff_open"
    /\ PreviousRead
    /\ save_result = NewFilePath(site_name, date_str)

\* the primary fetch failed in the sense of the claim: no response, or a
\* response whose status is not 2xx
PageFetchFailed(resp) == resp = NoResponse \/ resp.status < 200 \/ resp.status >= 300

\* C8 as stated: when the fetch of the page fails, process_url returns False
\* there and then, without a write to the archive or to the reports.
C8_FetchFailureAborts ==
    [][(pc = "fetch" /\ pc' # "interrupted" /\ PageFetchFailed(response')) =>
            /\ pc' = "return"
            /\ ret' = FALSE
            /\ versions' = versions
            /\ diffs' = diffs]_vars

\* C9 as stated: when save_webpage_version fails, process_url returns False
\* and no report is generated for the target.
C9_SaveFailureFailsTarget ==
    (pc = "return" /\ save_result = None) => (ret = FALSE /\ diff_result \in {Pending, None})

\* C10 as stated: every file under webpage_versions/ and diffs/ is complete
\* in every state.
C10_NoPartialFileVisible ==
    /\ \A site \in DOMAIN versions : \A n \in DOMAIN versions[site] : versions[site][n].complete
    /\ \A site \in DOMAIN diffs : \A n \in DOMAIN diffs[site] : diffs[site][n].complete

RECURSIVE CountOf(_, _)
\* how many entries of seq are v
CountOf(seq, v) ==
    IF seq = <<>> THEN 0
    ELSE (IF Head(seq) = v THEN 1 ELSE 0) + CountOf(Tail(seq), v)

\* run() stands inside its loop
InLoop == pc \notin {"idle", "done", "interrupted"}

\* C11: run() takes the targets one by one in the order of the list, each
\* once, whatever process_url returned for the targets before, and ends;
\* success_count is the number of targets for which process_url returned
\* True, and the successes and the failures add up to the number of targets.
C11_EveryTargetOnceInOrder ==
    /\ [](/\ InLoop => (idx \in 1..Len(urls) /\ Len(rets) = idx - 1)
          /\ success_count = CountOf(rets, TRUE)
          /\ pc = "done" =>
                /\ Len(rets) = Len(urls)
                /\ success_count + CountOf(rets, FALSE) = Len(urls))
    /\ [][idx' # idx =>
              \/ InLoop /\ idx' = idx + 1 /\ rets' = Append(rets, ret)
              \/ ~InLoop /\ idx' = 1 /\ rets' = <<>>]_vars
    /\ (InLoop ~> pc = "done")

\* a run has ended in which the first target failed and the second succeeded
C11_Witness ==
    /\ pc = "done"
    /\ rets = <<FALSE, TRUE>>
    /\ success_count = 1

\* the composite id of a target: (number, language, category)
TargetId(url_info) == <<url_info.number, url_info.language, url_info.type>>

\* C12 as stated: two targets with different ids are given different archive
\* directories, also when the name cannot be built, so every snapshot a
\* target saved still holds the page of that target whatever the other saved.
C12_KeysDisjoint ==
    (call.op = "save" /\ TargetId(targets[1]) # TargetId(targets[2])) =>
        /\ KeySite(1) # KeySite(2)
        /\ \A i \in {1, 2}, date \in KeyDates :
              kept[<<i, date>>] \in Docs =>
                  ReadFile(versions, SnapshotPath(KeySite(i), date)) = Whole(kept[<<i, date>>])

\* C13 as stated: two url_info with the same id are given the same archive
\* directory whatever their URLs, so after the first saved on the first day
\* and the second on the second day, previous() for the second is the
\* snapshot of the first day.
C13_KeyFromIdAlone ==
    (call.op # "none" /\ TargetId(targets[1]) = TargetId(targets[2])) =>
        /\ KeySite(1) = KeySite(2)
        /\ (/\ kept[<<1, DateList[1]>>] \in Docs
            /\ kept[<<2, DateList[2]>>] \in Docs
            /\ call.op = "previous"
            /\ call.site = KeySite(2)
            /\ call.follows = DateList[2]) =>
               previous_version = SnapshotPath(KeySite(1), DateList[1])

(***************************************************************************)
(* The properties of analyze_changes.                                      *)
(***************************************************************************)
\* analyze_changes has returned from its try block
Analyzed == changes.done /\ ~changes.raised

\* the opcode list analyze_changes went through
Opcodes == get_opcodes(old_text_sections, new_text_sections)

OldSpan(op) == op.i2 - op.i1
NewSpan(op) == op.j2 - op.j1

RECURSIVE SumSeq(_)
SumSeq(seq) == IF seq = <<>> THEN 0 ELSE Head(seq) + SumSeq(Tail(seq))

\* the units of the runs of one tag, counted on one side ("old", "new") or
\* on the longer of the two ("max")
UnitsOfRuns(tag, side) ==
    SumSeq([k \in 1..Len(Opcodes) |->
               IF Opcodes[k].tag # tag THEN 0
               ELSE CASE side = "old" -> OldSpan(Opcodes[k])
                      [] side = "new" -> NewSpan(Opcodes[k])
                      [] OTHER -> Max(OldSpan(Opcodes[k]), NewSpan(Opcodes[k]))])

\* C14: modified is the sum over the Replace runs of the longer of the two
\* spans, removed the sum of the old spans of the Delete runs, added the sum
\* of the new spans of the Insert runs, unchanged the sum of the spans of the
\* Equal runs, and total_changes is added + removed + modified.
C14_CountsFromOpcodes ==
    Analyzed =>
        /\ changes.stats.modified = UnitsOfRuns("replace", "max")
        /\ changes.stats.removed = UnitsOfRuns("delete", "old")
        /\ changes.stats.added = UnitsOfRuns("insert", "new")
        /\ changes.stats.unchanged = UnitsOfRuns("equal", "old")
        /\ changes.stats.total_changes =
              changes.stats.added + changes.stats.removed + changes.stats.modified

\* counted: an Equal run, then a Replace run of two old units by one new
C14_Witness ==
    /\ Analyzed
    /\ changes.stats.unchanged = 1
    /\ changes.stats.modified = 2
    /\ \E k \in 1..Len(Opcodes) :
          Opcodes[k].tag = "replace" /\ OldSpan(Opcodes[k]) = 2 /\ NewSpan(Opcodes[k]) = 1

\* C15: change_percentage is total_changes / (len(old) + len(new)) * 100
\* when one of the sequences has a unit, and 0 when both are empty.
C15_ChangePercentage ==
    Analyzed =>
        LET total_sections == Len(old_text_sections) + Len(new_text_sections)
            percentage == changes.stats.change_percentage
        IN  /\ percentage.den > 0
            /\ IF total_sections = 0
               THEN percentage.num = 0
               ELSE percentage.num * total_sections =
                        changes.stats.total_changes * 100 * percentage.den

\* one changed unit among the four of the two sequences is 25 percent
C15_Witness ==
    /\ Analyzed
    /\ old_text_sections = <<"TITLE: A", "PARAGRAPH: hello">>
    /\ new_text_sections = <<"TITLE: A", "PARAGRAPH: hello world">>
    /\ changes.stats.total_changes = 1
    /\ changes.stats.change_percentage = [num |-> 25, den |-> 1]

\* C16: whether the try block returned or raised, old_total is the length of
\* the old sequence, new_total the length of the new one, and net_change is
\* new_total - old_total.
C16_TotalsAreLengths ==
    changes.done =>
        /\ changes.stats.old_total = Len(old_text_sections)
        /\ changes.stats.new_total = Len(new_text_sections)
        /\ changes.stats.net_change = changes.stats.new_total - changes.stats.old_total

\* the fallback was returned for one old unit and three new ones
C16_Witness ==
    /\ changes.done
    /\ changes.raised
    /\ Len(old_text_sections) = 1
    /\ Len(new_text_sections) = 3
    /\ changes.stats.net_change = 2

\* the statistics of two sequences without a difference
NothingChanged ==
    /\ changes.stats.added = 0
    /\ changes.stats.removed = 0
    /\ changes.stats.modified = 0
    /\ changes.stats.total_changes = 0
    /\ changes.stats.change_percentage.num = 0
    /\ changes.stats.unchanged = changes.stats.old_total
    /\ changes.stats.unchanged = changes.stats.new_total

\* C17 as stated: a sequence diffed against itself, the empty one included,
\* gives one Equal run over the whole sequence and no change in the
\* statistics.
C17_SelfDiffIsOneEqualRun ==
    (Analyzed /\ old_text_sections = new_text_sections) =>
        /\ Opcodes = <<Opcode("equal", 0, Len(old_text_sections), 0, Len(new_text_sections))>>
        /\ NothingChanged

\* C17 amended: a sequence with a unit diffed against itself gives one Equal
\* run over the whole sequence, the empty sequence gives no run at all, and
\* in both cases the statistics show no change.
C17_SelfDiffIsEqual ==
    (Analyzed /\ old_text_sections = new_text_sections) =>
        /\ IF old_text_sections = <<>>
           THEN Opcodes = <<>>
           ELSE Opcodes =
                   <<Opcode("equal", 0, Len(old_text_sections), 0, Len(new_text_sections))>>
        /\ NothingChanged

\* three units, the first of them again at the end, diffed against themselves
C17_Witness ==
    /\ Analyzed
    /\ old_text_sections = new_text_sections
    /\ Len(old_text_sections) = 3
    /\ old_text_sections[1] = old_text_sections[3]
    /\ changes.stats.unchanged = 3

\* C18: against an empty old sequence every new unit is inserted, against an
\* empty new sequence every old unit is deleted, and nothing else is counted.
C18_EmptySide ==
    /\ (Analyzed /\ old_text_sections = <<>> /\ new_text_sections # <<>>) =>
          /\ Opcodes = <<Opcode("insert", 0, 0, 0, Len(new_text_sections))>>
          /\ changes.stats.added = changes.stats.new_total
          /\ changes.stats.total_changes = changes.stats.new_total
          /\ changes.stats.new_total = Len(new_text_sections)
          /\ changes.stats.removed = 0
          /\ changes.stats.modified = 0
          /\ changes.stats.unchanged = 0
    /\ (Analyzed /\ new_text_sections = <<>> /\ old_text_sections # <<>>) =>
          /\ Opcodes = <<Opcode("delete", 0, Len(old_text_sections), 0, 0)>>
          /\ changes.stats.removed = changes.stats.old_total
          /\ changes.stats.total_changes = changes.stats.old_total
          /\ changes.stats.old_total = Len(old_text_sections)
          /\ changes.stats.added = 0
          /\ changes.stats.modified = 0
          /\ changes.stats.unchanged = 0

\* two new units against no old unit
C18_Witness ==
    /\ Analyzed
    /\ old_text_sections = <<>>
    /\ Len(new_text_sections) = 2
    /\ changes.stats.added = 2

\* the positions (from 0) at which two sequences of one length differ
Differing == {p \in 0..(Len(old_text_sections) - 1) :
                 At(old_text_sections, p) # At(new_text_sections, p)}

\* the edit script of one replaced unit at position p of n, and its counts
OneReplaced(p, n) ==
    /\ Opcodes = (IF p > 0 THEN <<Opcode("equal", 0, p, 0, p)>> ELSE <<>>)
                 \o <<Opcode("replace", p, p + 1, p, p + 1)>>
                 \o (IF p + 1 < n THEN <<Opcode("equal", p + 1, n, p + 1, n)>> ELSE <<>>)
    /\ changes.stats.modified = 1
    /\ changes.stats.total_changes = 1
    /\ changes.stats.added = 0
    /\ changes.stats.removed = 0
    /\ changes.stats.unchanged = n - 1
    /\ changes.stats.change_percentage.num * 2 * n = 100 * changes.stats.change_percentage.den

Rank(unit) ==
    CASE unit.kind = "TITLE" -> 1
      [] unit.kind = "H" -> 2
      [] unit.kind = "PARAGRAPH" -> 3
      [] unit.kind = "LIST ITEM" -> 4
      [] OTHER -> 5

\* no unit of a later category stands before a unit of an earlier one, and
\* there is at most one Title
CategoriesInOrder(units) ==
    /\ Cardinality({k \in 1..Len(units) : units[k].kind = "TITLE"}) <= 1
    /\ \A m, n \in 1..Len(units) : m < n => Rank(units[m]) <= Rank(units[n])

\* unit first may stand before unit second of the same category: headings
\* by level and then by place in the document, the others by place in the
\* document (a unit made twice from one element is let through)
InCategoryOrder(first, second) ==
    IF first.kind = "H"
    THEN \/ first.level < second.level
         \/ first.level = second.level /\ first.node <= second.node
    ELSE first.node <= second.node

\* C20 as stated: text_sections is at most one Title, then the headings by
\* level and in document order within a level, then the paragraphs, then the
\* list items, then the links, each of the three in document order.
C20_UnitsInCategoryAndDocumentOrder ==
    text_sections.done =>
        /\ CategoriesInOrder(text_sections.units)
        /\ \A m, n \in 1..Len(text_sections.units) :
              (m < n /\ text_sections.units[m].kind = text_sections.units[n].kind) =>
                  InCategoryOrder(text_sections.units[m], text_sections.units[n])

\* the units of text_sections made from element i
UnitsFrom(kind, i) ==
    {k \in 1..Len(text_sections.units) :
        text_sections.units[k].kind = kind /\ text_sections.units[k].node = i}

\* the paragraph elements extract_text_content finds (what is inside a
\* script, style or noscript block is taken out before they are looked for)
Paragraphs == {i \in Live(document) : document[i].tag = "p"}

\* C21: a paragraph yields a PARAGRAPH unit exactly when its stripped text
\* has more than 10 characters: 10 or fewer and it is left out, 11 or more
\* and it is there.
C21_ParagraphIffLongerThanTen ==
    text_sections.done =>
        \A i \in Paragraphs :
            /\ Len(Strip(get_text(document, i))) <= 10 => UnitsFrom("PARAGRAPH", i) = {}
            /\ Len(Strip(get_text(document, i))) >= 11 => UnitsFrom("PARAGRAPH", i) # {}

\* a paragraph of 10 characters between blanks was left out and one of 11
\* characters between blanks was taken
C21_Witness ==
    /\ text_sections.done
    /\ \E i, j \in Paragraphs :
          /\ document[i].text = <<Space>> \o HelloWorl \o <<Space>>
          /\ UnitsFrom("PARAGRAPH", i) = {}
          /\ document[j].text = <<Space>> \o HelloWorld \o <<Space>>
          /\ UnitsFrom("PARAGRAPH", j) # {}

\* the li elements that stand inside a ul or an ol
ListItems ==
    {i \in Live(document) :
        /\ document[i].tag = "li"
        /\ \E l \in Live(document) :
              document[l].tag \in {"ul", "ol"} /\ i \in Descendants(document, l)}

\* the LIST ITEM units of text_sections, in the order they stand there
ListItemNodes ==
    LET IsListItem(unit) == unit.kind = "LIST ITEM"
        items == SelectSeq(text_sections.units, IsListItem)
    IN  [k \in 1..Len(items) |-> items[k].node]

\* C22 as stated: every li inside a ul or ol whose stripped text is not empty
\* yields one LIST ITEM unit, and the LIST ITEM units stand in document
\* order, also for lists inside the items of other lists.
C22_OneUnitPerListItemInOrder ==
    text_sections.done =>
        /\ \A i \in ListItems :
              Strip(get_text(document, i)) # <<>> =>
                  Cardinality(UnitsFrom("LIST ITEM", i)) = 1
        /\ \A m, n \in 1..Len(ListItemNodes) : m < n => ListItemNodes[m] < ListItemNodes[n]

\* the page request went through: fetch_webpage came to its loops
PageFetched == page.done /\ ~PageFailed(page.response)

\* the request for an asset failed: it raised or its status is no 2xx
AssetFailed(resp) == resp.error # "none" \/ resp.status_code < 200 \/ resp.status_code > 299

\* the positions in asset_log of the requests for element i
LoggedAt(i) == {k \in DOMAIN asset_log : asset_log[k].node = i}

\* C23: when the request for an asset fails (it raised for a missing
\* connection or the timeout, or its status is no 2xx), the element that
\* refers to it is in the returned document as it was parsed, every other
\* element with an external reference has had its request all the same, one
\* each, and fetch_webpage returns the document with all its elements.
C23_AssetFailureIsNotFatal ==
    PageFetched =>
        /\ page.returned
        /\ Len(page.document) = Len(soup)
        /\ \A i \in DOMAIN soup :
              Cardinality(LoggedAt(i)) = (IF soup[i].ref = "url" THEN 1 ELSE 0)
        /\ \A k \in DOMAIN asset_log :
              AssetFailed(asset_log[k].response) =>
                  page.document[asset_log[k].node] = soup[asset_log[k].node]

\* the first request failed with 404, a later one raised and the last one,
\* with status 200, was embedded
C23_Witness ==
    /\ PageFetched
    /\ Len(asset_log) = 3
    /\ asset_log[1].response.status_code = 404
    /\ asset_log[2].response.error = "Timeout"
    /\ asset_log[3].response.status_code = 200
    /\ page.document[asset_log[3].node] # soup[asset_log[3].node]

\* C27: every stylesheet, script or image reference whose request succeeded
\* with a 2xx status is replaced in the returned document by the fetched
\* content (a style block, the script's own text, a data: URI): no external
\* reference to it remains.
C27_FetchedAssetsAreInlined ==
    PageFetched =>
        \A k \in DOMAIN asset_log :
            ~AssetFailed(asset_log[k].response) =>
                /\ page.document[asset_log[k].node].ref # "url"
                /\ page.document[asset_log[k].node].content = AssetText

\* the units of a[lo:hi]
Slice(seq, lo, hi) == [d \in 1..(hi - lo) |-> At(seq, lo + d - 1)]

\* C26: the opcodes analyze_changes goes through tile the two sequences: the
\* first run starts at 0 on both sides, each run starts where the one before
\* ended, the last ends at len(old) and len(new) (no run at all only for two
\* empty sequences), an equal run pairs the same labels position by
\* position, an insert run has an empty old range and a delete run an empty
\* new range, a replace run neither.
C26_OpcodesTileBothSequences ==
    Analyzed =>
        LET n == Len(Opcodes) IN
        /\ n = 0 => old_text_sections = <<>> /\ new_text_sections = <<>>
        /\ n > 0 =>
              /\ Opcodes[1].i1 = 0 /\ Opcodes[1].j1 = 0
              /\ Opcodes[n].i2 = Len(old_text_sections)
              /\ Opcodes[n].j2 = Len(new_text_sections)
        /\ \A k \in 1..(n - 1) :
              Opcodes[k].i2 = Opcodes[k + 1].i1 /\ Opcodes[k].j2 = Opcodes[k + 1].j1
        /\ \A k \in 1..n :
              LET op == Opcodes[k] IN
              /\ op.i1 <= op.i2 /\ op.j1 <= op.j2
              /\ CASE op.tag = "equal" ->
                         /\ OldSpan(op) > 0
                         /\ Slice(old_text_sections, op.i1, op.i2)
                                = Slice(new_text_sections, op.j1, op.j2)
                   [] op.tag = "insert" -> OldSpan(op) = 0 /\ NewSpan(op) > 0
                   [] op.tag = "delete" -> OldSpan(op) > 0 /\ NewSpan(op) = 0
                   [] op.tag = "replace" -> OldSpan(op) > 0 /\ NewSpan(op) > 0
                   [] OTHER -> FALSE

\* a delete run, an equal run and an insert run tile three old units and
\* two new ones
C26_Witness ==
    /\ Analyzed
    /\ Len(old_text_sections) = 3
    /\ Len(new_text_sections) = 2
    /\ Len(Opcodes) = 3
    /\ Opcodes[1].tag = "delete"
    /\ Opcodes[2].tag = "equal"
    /\ Opcodes[3].tag = "insert"

\* the edit script has no replace run
NoReplaceRun == \A k \in 1..Len(Opcodes) : Opcodes[k].tag # "replace"

\* C30: in every dictionary analyze_changes returns unchanged + removed is at
\* most old_total and unchanged + added at most new_total; when the opcodes
\* it went through hold no replace run, both are equalities and added -
\* removed is net_change.
C30_CountsWithinTotals ==
    changes.done =>
        /\ changes.stats.unchanged + changes.stats.removed <= changes.stats.old_total
        /\ changes.stats.unchanged + changes.stats.added <= changes.stats.new_total
        /\ (Analyzed /\ NoReplaceRun) =>
              /\ changes.stats.unchanged + changes.stats.removed = changes.stats.old_total
              /\ changes.stats.unchanged + changes.stats.added = changes.stats.new_total
              /\ changes.stats.added - changes.stats.removed = changes.stats.net_change

\* an edit script without a replace run: one unit kept, two removed, one
\* added
C30_Witness ==
    /\ Analyzed
    /\ NoReplaceRun
    /\ changes.stats.unchanged = 1
    /\ changes.stats.removed = 2
    /\ changes.stats.added = 1
    /\ changes.stats.net_change = -1

\* the directory of a site in a tree: whether it is there, and its files
DirOf(tree, s) ==
    IF s \in DOMAIN tree THEN [there |-> TRUE, files |-> tree[s]]
    ELSE [there |-> FALSE, files |-> EmptyDir]

\* C28: whatever process_url does for one target, the archive directory and
\* the report directory of every target with another site name are after the
\* step as they were before it: no snapshot and no report of theirs is
\* made, removed or rewritten.
C28_OtherTargetsUntouched ==
    [][\A s \in SiteNames :
           s # site_name =>
               /\ DirOf(versions', s) = DirOf(versions, s)
               /\ DirOf(diffs', s) = DirOf(diffs, s)]_vars

\* the second target has been saved and compared while the first one holds
\* snapshots and a report of its own
C28_Witness ==
    /\ pc = "return"
    /\ idx = 2
    /\ diff_result # None /\ diff_result # Pending
    /\ get_site_name(urls[1]) # site_name
    /\ Cardinality(DOMAIN DirOf(versions, get_site_name(urls[1])).files) = 2
    /\ Cardinality(DOMAIN DirOf(diffs, get_site_name(urls[1])).files) = 1
    /\ Cardinality(DOMAIN DirOf(versions, site_name).files) = 2

\* process_url is about to return after generate_diff was called and failed
DiffFailed ==
    /\ pc = "return"
    /\ previous_version # None /\ previous_version # Pending
    /\ diff_result = None

\* C29: a failure of generate_diff (the report directory cannot be made, a
\* version cannot be read, the report cannot be opened or written) leaves the
\* archive as it was: no step of generate_diff changes a snapshot, the file
\* save_webpage_version returned still holds the document of this run, and
\* process_url returns True.
C29_ReportFailureKeepsTheRun ==
    /\ [](DiffFailed =>
            /\ ret
            /\ (save_result # None /\ save_result # Pending) =>
                  /\ Readable(versions, save_result)
                  /\ ReadFile(versions, save_result) = Whole(html_content))
    /\ [][(pc = "diff_open" \/ pc = "diff_write") =>
              /\ versions' = versions
              /\ (pc' = "return" /\ diff_result' = None) => ret']_vars

\* the report of the second day could not be written: the snapshot of that
\* day and the one before it are in the archive
C29_Witness ==
    /\ DiffFailed
    /\ ret
    /\ save_result # None /\ save_result # Pending
    /\ ReadFile(versions, save_result) = Whole(html_content)
    /\ Readable(versions, previous_version)
    /\ previous_version # save_result

\* the rows of the report that hold lines of the two sequences
IsLineRow(row) == row.kind = "line"
LineRows == SelectSeq(diff_file.rows, IsLineRow)

\* C24: when extract_text_content fails on one file, that side is the empty
\* sequence and the other side is what its file holds; generate_diff goes on
\* to a report all the same, whose statistics count the other side as added
\* (or removed) and nothing else, and whose table has one row for each unit
\* of the other side, marked as added (or deleted) beside a blank line.
C24_ExtractionFailureGivesEmptySide ==
    diff_file.done =>
        /\ diff_file.raised.old => old_text_sections = <<>>
        /\ diff_file.raised.new => new_text_sections = <<>>
        /\ ~diff_file.raised.old => old_text_sections = files.old
        /\ ~diff_file.raised.new => new_text_sections = files.new
        /\ diff_file.rows # <<>>
        /\ (Analyzed /\ diff_file.raised.old) =>
              /\ changes.stats.added = Len(new_text_sections)
              /\ changes.stats.removed = 0
              /\ changes.stats.modified = 0
              /\ changes.stats.unchanged = 0
              /\ Len(LineRows) = Len(new_text_sections)
              /\ \A k \in DOMAIN LineRows :
                    /\ LineRows[k].from = BlankLine
                    /\ LineRows[k].to = Cell(new_text_sections[k], {"diff_add"})
        /\ (Analyzed /\ diff_file.raised.new) =>
              /\ changes.stats.removed = Len(old_text_sections)
              /\ changes.stats.added = 0
              /\ changes.stats.modified = 0
              /\ changes.stats.unchanged = 0
              /\ Len(LineRows) = Len(old_text_sections)
              /\ \A k \in DOMAIN LineRows :
                    /\ LineRows[k].from = Cell(old_text_sections[k], {"diff_sub"})
                    /\ LineRows[k].to = BlankLine

\* the extraction of the old file, which holds a unit, failed: the report
\* shows the two units of the new file as added
C24_Witness ==
    /\ diff_file.done
    /\ Analyzed
    /\ diff_file.raised.old
    /\ ~diff_file.raised.new
    /\ files.old # <<>>
    /\ old_text_sections = <<>>
    /\ Len(new_text_sections) = 2
    /\ changes.stats.added = 2
    /\ Len(LineRows) = 2

\* the rows the script's selector takes for change rows, in report order
MarkedRows == SelectSeq(diff_file.rows, HasChange)

RECURSIVE ClassesOfRuns(_)
\* the change rows the opcodes call for: for each replace run as many rows
\* "changed" as its longer side has units, for each delete run as many
\* "removed" as it has old units, for each insert run as many "added" as it
\* has new units
ClassesOfRuns(opcodes) ==
    IF opcodes = <<>> THEN <<>>
    ELSE LET op == Head(opcodes)
             n == CASE op.tag = "replace" -> Max(OldSpan(op), NewSpan(op))
                    [] op.tag = "delete" -> OldSpan(op)
                    [] op.tag = "insert" -> NewSpan(op)
                    [] OTHER -> 0
             class == CASE op.tag = "replace" -> "changed"
                        [] op.tag = "delete" -> "removed"
                        [] op.tag = "insert" -> "added"
                        [] OTHER -> "none"
         IN  [k \in 1..n |-> class] \o ClassesOfRuns(Tail(opcodes))

IsTagged(class) == class # "none"

\* C25: the rows of the written report that hold a change mark are as many
\* as total_changes and, in report order, of the classes the opcodes of the
\* statistics call for; and once the report is loaded, the rows its script
\* has found and tagged added, removed or changed are these.
C25_ChangeRowsFollowOpcodes ==
    (diff_file.done /\ Analyzed) =>
        /\ Len(MarkedRows) = changes.stats.total_changes
        /\ [k \in DOMAIN MarkedRows |-> ChangeIndicator(MarkedRows[k])] = ClassesOfRuns(Opcodes)
        /\ change_rows.loaded =>
              /\ Len(change_rows.changeRows) = changes.stats.total_changes
              /\ SelectSeq(change_rows.classes, IsTagged) = ClassesOfRuns(Opcodes)

====
